---------------------------- MODULE Spec2Model ----------------------------
(***************************************************************************)
(* Locale-aware date formatting and parsing of totallylazy.js:             *)
(* the format-part emulation engine (FormatToParts), the pattern builder   *)
(* (RegexBuilder), the generated matcher (RegexParser) and the composite   *)
(* parser (CompositeDateParser); the memoized factories, the currency     *)
(* lookups (CurrencySymbols), money formatting and parsing, the date and   *)
(* money format templates, and the take transducer.                        *)
(*                                                                         *)
(* A string is a sequence of one-character strings, so that formatting,    *)
(* case folding and matching work on characters as the code does.          *)
(***************************************************************************)
EXTENDS Integers, Sequences, FiniteSets, TLC

VARIABLES
    pc,        \* position of the running scenario
    locale,    \* the locale argument
    options,   \* the options argument (an Options record or a format string)
    native,    \* the `native` argument of parse / formatData
    host,      \* the host: has it formatToParts, what its constructor deletes
    value,     \* the Date, or the Money, being formatted
    text,      \* the string produced by format, or handed to a parser
    parsed,    \* outcome of the last parse call
    previous,  \* outcome of the parse call before the text was re-cased
    parsers,   \* the patterns built so far: RegexBuilder's cache, the candidates
    consulted, \* the candidates CompositeDateParser.parse has called, in order
    raw,       \* the part sequence handed to collapseLiterals or to getType
    parts,     \* the DateTimeFormatPart sequence that came out
    schema,    \* outcome of FormatToParts.actualNamesPattern
    document,  \* the dates a scanned text was assembled from
    found,     \* outcome of parseAll
    created,   \* outcome of ImprovedDateTimeFormat.create
    cache,     \* the tables of the @cache decorators: factory -> key -> object
    derivations, \* how often each factory's body ran for each key
    returned,  \* the calls of the factories so far and what each answered
    symbols,   \* CurrencySymbols.cache: locale -> the lookup's entries
    callers,   \* the callers of CurrencySymbols.get and what each was answered
    looked,    \* outcome of the last CurrencySymbols parse
    asked,     \* the lookup and the name of the last DatumLookup parse
    answered,  \* what that parse and FormatToParts.parsable made of the name
    template,  \* the format template handed to partsFrom
    layout,    \* outcome of partsFrom
    source,    \* the iterable take reads: its elements, or a generator that throws
    requested, \* the argument of take, in halves (9 is 4.5)
    count,     \* this.count of the take transducer, in halves
    pulled,    \* how many times the source was asked for an element
    taken      \* the elements take has yielded

\* the arguments of a call
inputs == << locale, options, native, host, value >>

\* what formatting and parsing a date leave behind
dateVars == << text, parsed, previous, parsers, consulted >>

\* what the format-part engine leaves behind
partVars == << raw, parts, schema >>

\* what scanning a text leaves behind
scanVars == << document, found >>

\* what the memoized factories leave behind
memoVars == << cache, derivations, returned >>

\* what the currency lookups leave behind
symbolVars == << symbols, callers, looked >>

\* what a parse of a name by a month or weekday lookup leaves behind
lookupVars == << asked, answered >>

\* what reading a format template leaves behind
templateVars == << template, layout >>

\* what a take over a source leaves behind
takeVars == << source, requested, count, pulled, taken >>

\* the variables of the scenarios that follow the currency lookups
laterVars == << lookupVars, templateVars, takeVars >>

\* the variables of the scenarios that follow the date scenarios
restVars == << memoVars, symbolVars, laterVars >>

vars == << pc, inputs, dateVars, partVars, scanVars, created, restVars >>

-----------------------------------------------------------------------------
(* Characters and strings                                                  *)

LowerAlpha ==
    <<"a","b","c","d","e","f","g","h","i","j","k","l","m",
      "n","o","p","q","r","s","t","u","v","w","x","y","z","ì">>

UpperAlpha ==
    <<"A","B","C","D","E","F","G","H","I","J","K","L","M",
      "N","O","P","Q","R","S","T","U","V","W","X","Y","Z","Ì">>

DigitChars == <<"0","1","2","3","4","5","6","7","8","9">>

Digits == { DigitChars[i] : i \in 1..10 }

DigitValues == [c \in Digits |-> (CHOOSE i \in 1..10 : DigitChars[i] = c) - 1]

IsDigit(c) == c \in Digits

DigitValue(c) == DigitValues[c]

LowerMap ==
    [c \in { UpperAlpha[i] : i \in 1..Len(UpperAlpha) } |->
        LowerAlpha[CHOOSE i \in 1..Len(UpperAlpha) : UpperAlpha[i] = c]]

UpperMap ==
    [c \in { LowerAlpha[i] : i \in 1..Len(LowerAlpha) } |->
        UpperAlpha[CHOOSE i \in 1..Len(LowerAlpha) : LowerAlpha[i] = c]]

\* String.prototype.toLocaleLowerCase, one character
LowerChar(c) == IF c \in DOMAIN LowerMap THEN LowerMap[c] ELSE c

UpperChar(c) == IF c \in DOMAIN UpperMap THEN UpperMap[c] ELSE c

toLocaleLowerCase(s) == [i \in 1..Len(s) |-> LowerChar(s[i])]

toLocaleUpperCase(s) == [i \in 1..Len(s) |-> UpperChar(s[i])]

\* the element of a one-element set; The({ e : x \in {v} }) is e with x naming
\* the value of v
The(S) == CHOOSE x \in S : TRUE

RECURSIVE Join(_)
\* Array.prototype.join("") of a sequence of strings
Join(ss) == IF ss = <<>> THEN <<>> ELSE Head(ss) \o Join(Tail(ss))

RECURSIVE ToDigits(_)
\* decimal rendering of a natural number
ToDigits(n) ==
    IF n < 10 THEN << DigitChars[n + 1] >>
    ELSE ToDigits(n \div 10) \o << DigitChars[(n % 10) + 1] >>

Pad2(n) == IF n < 10 THEN <<"0">> \o ToDigits(n) ELSE ToDigits(n % 100)

\* the not-a-number value of parseInt, outside the naturals
NaN == -1

RECURSIVE DigitsValue(_, _)
DigitsValue(s, acc) ==
    IF s = <<>> \/ ~IsDigit(Head(s)) THEN acc
    ELSE DigitsValue(Tail(s), acc * 10 + DigitValue(Head(s)))

Undefined == << "undefined" >>

\* parseInt: the leading decimal digits, NaN when there are none
parseInt(s) ==
    IF s = Undefined \/ s = <<>> \/ ~IsDigit(Head(s)) THEN NaN
    ELSE DigitsValue(s, 0)

\* s has the string w at position pos
HasAt(s, pos, w) ==
    /\ pos + Len(w) - 1 <= Len(s)
    /\ \A k \in 1..Len(w) : s[pos + k - 1] = w[k]

-----------------------------------------------------------------------------
(* Outcomes: a returned value or a thrown Error                            *)

Return(v) == [ok |-> TRUE, value |-> v, error |-> ""]

Throw(message) == [ok |-> FALSE, value |-> <<>>, error |-> message]

None == [ok |-> FALSE, value |-> <<>>, error |-> "not called"]

-----------------------------------------------------------------------------
(* Dates                                                                   *)

\* date(year, month, day): UTC midnight, month counted from 1
date(y, m, d) == [year |-> y, month |-> m, day |-> d]

MonthOffsets == <<0, 3, 2, 5, 0, 3, 5, 1, 4, 6, 2, 4>>

\* weekday number of a date, Monday = 1 .. Sunday = 7
WeekdayOf(d) ==
    LET y == IF d.month < 3 THEN d.year - 1 ELSE d.year
        w == (y + (y \div 4) - (y \div 100) + (y \div 400)
                + MonthOffsets[d.month] + d.day) % 7
    IN  IF w = 0 THEN 7 ELSE w

-----------------------------------------------------------------------------
(* Options and formats                                                     *)

\* an Options record; an absent key is "none", and format is the empty string
Opts(y, m, d, w) == [format |-> <<>>, year |-> y, month |-> m, day |-> d, weekday |-> w]

\* a format string such as "dd MMM yyyy" in the place of an options record
Fmt(f) == [format |-> f, year |-> "none", month |-> "none", day |-> "none", weekday |-> "none"]

\* typeof options === "string"
IsString(o) == o.format # <<>>

OptionKeys == <<"year", "month", "day", "weekday">>

HasKey(o, k) == o[k] # "none"

\* Object.keys(options), in the order year, month, day, weekday
Keys(o) == SelectSeq(OptionKeys, LAMBDA k : HasKey(o, k))

-----------------------------------------------------------------------------
(* The host's Intl.DateTimeFormat for the locales en-GB, en-US and it      *)

MonthsLong ==
    << <<"J","a","n","u","a","r","y">>,
       <<"F","e","b","r","u","a","r","y">>,
       <<"M","a","r","c","h">>,
       <<"A","p","r","i","l">>,
       <<"M","a","y">>,
       <<"J","u","n","e">>,
       <<"J","u","l","y">>,
       <<"A","u","g","u","s","t">>,
       <<"S","e","p","t","e","m","b","e","r">>,
       <<"O","c","t","o","b","e","r">>,
       <<"N","o","v","e","m","b","e","r">>,
       <<"D","e","c","e","m","b","e","r">> >>

MonthsShort ==
    << <<"J","a","n">>, <<"F","e","b">>, <<"M","a","r">>, <<"A","p","r">>,
       <<"M","a","y">>, <<"J","u","n">>, <<"J","u","l">>, <<"A","u","g">>,
       <<"S","e","p">>, <<"O","c","t">>, <<"N","o","v">>, <<"D","e","c">> >>

WeekdaysLong ==
    << <<"M","o","n","d","a","y">>,
       <<"T","u","e","s","d","a","y">>,
       <<"W","e","d","n","e","s","d","a","y">>,
       <<"T","h","u","r","s","d","a","y">>,
       <<"F","r","i","d","a","y">>,
       <<"S","a","t","u","r","d","a","y">>,
       <<"S","u","n","d","a","y">> >>

WeekdaysShort ==
    << <<"M","o","n">>, <<"T","u","e">>, <<"W","e","d">>, <<"T","h","u">>,
       <<"F","r","i">>, <<"S","a","t">>, <<"S","u","n">> >>

MesiLong ==
    << <<"g","e","n","n","a","i","o">>, <<"f","e","b","b","r","a","i","o">>,
       <<"m","a","r","z","o">>, <<"a","p","r","i","l","e">>,
       <<"m","a","g","g","i","o">>, <<"g","i","u","g","n","o">>,
       <<"l","u","g","l","i","o">>, <<"a","g","o","s","t","o">>,
       <<"s","e","t","t","e","m","b","r","e">>, <<"o","t","t","o","b","r","e">>,
       <<"n","o","v","e","m","b","r","e">>, <<"d","i","c","e","m","b","r","e">> >>

MesiShort ==
    << <<"g","e","n">>, <<"f","e","b">>, <<"m","a","r">>, <<"a","p","r">>,
       <<"m","a","g">>, <<"g","i","u">>, <<"l","u","g">>, <<"a","g","o">>,
       <<"s","e","t">>, <<"o","t","t">>, <<"n","o","v">>, <<"d","i","c">> >>

GiorniLong ==
    << <<"l","u","n","e","d","ì">>, <<"m","a","r","t","e","d","ì">>,
       <<"m","e","r","c","o","l","e","d","ì">>, <<"g","i","o","v","e","d","ì">>,
       <<"v","e","n","e","r","d","ì">>, <<"s","a","b","a","t","o">>,
       <<"d","o","m","e","n","i","c","a">> >>

GiorniShort ==
    << <<"l","u","n">>, <<"m","a","r">>, <<"m","e","r">>, <<"g","i","o">>,
       <<"v","e","n">>, <<"s","a","b">>, <<"d","o","m">> >>

Locales == {"en-GB", "en-US", "it"}

MonthNames(loc, width) ==
    IF loc = "it" THEN (IF width = "short" THEN MesiShort ELSE MesiLong)
    ELSE (IF width = "short" THEN MonthsShort ELSE MonthsLong)

WeekdayNames(loc, width) ==
    IF loc = "it" THEN (IF width = "short" THEN GiorniShort ELSE GiorniLong)
    ELSE (IF width = "short" THEN WeekdaysShort ELSE WeekdaysLong)

NumericMonth(o) == o.month \in {"numeric", "2-digit"}

\* the rendering of month number m
HostMonth(loc, o, m) ==
    CASE o.month \in {"long", "short"} -> MonthNames(loc, o.month)[m]
      [] o.month = "2-digit" -> Pad2(m)
      [] OTHER -> IF loc = "en-GB" THEN Pad2(m) ELSE ToDigits(m)

\* the rendering of weekday number w (Monday = 1)
HostWeekday(loc, o, w) ==
    WeekdayNames(loc, o.weekday)[w]

\* the rendering of one field of date d
HostField(loc, o, type, d) ==
    CASE type = "year" ->
            IF o.year = "2-digit" THEN Pad2(d.year % 100) ELSE ToDigits(d.year)
      [] type = "month" -> HostMonth(loc, o, d.month)
      [] type = "day" ->
            IF o.day = "2-digit" \/ (loc = "en-GB" /\ NumericMonth(o))
            THEN Pad2(d.day) ELSE ToDigits(d.day)
      [] OTHER -> HostWeekday(loc, o, WeekdayOf(d))

\* the order in which the locale renders the fields the options ask for
HostOrder(loc, o) ==
    SelectSeq(IF loc = "en-US" THEN <<"weekday", "month", "day", "year">>
                               ELSE <<"weekday", "day", "month", "year">>,
              LAMBDA k : HasKey(o, k))

\* the literal the locale puts between field f and the field g after it
HostSeparator(loc, o, f, g) ==
    CASE f = "weekday" -> IF loc = "it" THEN <<" ">> ELSE <<",", " ">>
      [] NumericMonth(o) -> <<"/">>
      [] loc = "en-US" /\ f = "day" /\ g = "year" -> <<",", " ">>
      [] OTHER -> <<" ">>

Part(t, v) == [type |-> t, value |-> v]

RECURSIVE HostParts(_, _, _, _)
\* the parts of the fields `order` of date d, literals between them
HostParts(loc, o, order, d) ==
    IF order = <<>> THEN <<>>
    ELSE << Part(Head(order), HostField(loc, o, Head(order), d)) >>
         \o (IF Len(order) = 1 THEN <<>>
             ELSE << Part("literal", HostSeparator(loc, o, order[1], order[2])) >>)
         \o HostParts(loc, o, Tail(order), d)

\* Intl.DateTimeFormat.prototype.formatToParts
HostFormatToParts(loc, o, d) == HostParts(loc, o, HostOrder(loc, o), d)

PartValues(ps) == [i \in 1..Len(ps) |-> ps[i].value]

\* Intl.DateTimeFormat.prototype.format
HostFormat(loc, o, d) == Join(PartValues(HostFormatToParts(loc, o, d)))

-----------------------------------------------------------------------------
(* Datum lookups: Months and Weekdays                                      *)

Datum(n, v) == [name |-> n, number |-> v]

\* months(locale, options, native): the rendered names of the twelve months
months(loc, o) ==
    [m \in 1..12 |-> HostMonth(loc, IF HasKey(o, "month") THEN o
                                    ELSE [o EXCEPT !.month = "long"], m)]

\* weekdays(locale, options, native): the rendered names of the seven weekdays
weekdays(loc, o) == [w \in 1..7 |-> HostWeekday(loc, o, w)]

\* Months.dataFor(locale, options, native)
Months_dataFor(loc, o) ==
    [m \in 1..12 |-> Datum(months(loc, o)[m], m)]

\* Weekdays.dataFor(locale, options, native)
Weekdays_dataFor(loc, o) ==
    [w \in 1..7 |-> Datum(weekdays(loc, o)[w], w)]

LongNames == Opts("none", "long", "none", "long")

ShortNames == Opts("none", "short", "none", "short")

\* Months.cache: per locale, the long and the short names of the locale
Months_cache ==
    [loc \in Locales |->
        Months_dataFor(loc, LongNames) \o Months_dataFor(loc, ShortNames)]

\* Weekdays.cache
Weekdays_cache ==
    [loc \in Locales |->
        Weekdays_dataFor(loc, LongNames) \o Weekdays_dataFor(loc, ShortNames)]

\* Months.get(locale)
Months_get(loc) == Months_cache[loc]

\* Weekdays.get(locale)
Weekdays_get(loc) == Weekdays_cache[loc]

RECURSIVE InsertByLength(_, _)
InsertByLength(sorted, n) ==
    IF sorted = <<>> THEN << n >>
    ELSE IF Len(n) > Len(Head(sorted)) THEN << n >> \o sorted
    ELSE << Head(sorted) >> \o InsertByLength(Tail(sorted), n)

RECURSIVE LongestFirst(_)
LongestFirst(names) ==
    IF names = <<>> THEN <<>>
    ELSE InsertByLength(LongestFirst(Tail(names)), Head(names))

\* DatumLookup.pattern: the alternation of the names, longest first
DatumLookup_pattern(data) ==
    LongestFirst([i \in 1..Len(data) |-> data[i].name])

\* a lookup that answers a name it does not have with a datum without a number
DatumLookup_parseLenient(data, name) ==
    LET lower == toLocaleLowerCase(name)
        hits  == SelectSeq(data, LAMBDA e : toLocaleLowerCase(e.name) = lower)
    IN  IF name = Undefined \/ hits = <<>> THEN Return([name |-> name, number |-> NaN])
        ELSE Return(Head(hits))

\* DatumLookup.parse: exact lookup after case normalization, else NotFound
DatumLookup_parse(data, name) ==
    LET lower == toLocaleLowerCase(name)
        hits  == SelectSeq(data, LAMBDA e : toLocaleLowerCase(e.name) = lower)
    IN  IF name = Undefined \/ hits = <<>> THEN Throw("NotFound")
        ELSE Return(Head(hits))

\* Months.parse: a numeric token is the month number itself
Months_parse(data, name) ==
    IF parseInt(name) # NaN THEN Return(Datum(name, parseInt(name)))
    ELSE DatumLookup_parse(data, name)

-----------------------------------------------------------------------------
(* Regular expressions of the shape the builders generate: a sequence of   *)
(* groups, matched with the priorities of a backtracking engine            *)

\* one group: its name, its alternation of names, its character class
Group(k, ns, cs) == [kind |-> k, names |-> ns, chars |-> cs]

NoMatch == [ok |-> FALSE, caps |-> <<>>, start |-> 0, end |-> 0]

DigitsAt(s, pos, n) ==
    /\ pos + n - 1 <= Len(s)
    /\ \A k \in 0..(n - 1) : IsDigit(s[pos + k])

\* \d{1,2}, greedy: two digits are tried before one
DigitEnds(s, pos) ==
    (IF DigitsAt(s, pos, 2) THEN << pos + 2 >> ELSE <<>>)
    \o (IF DigitsAt(s, pos, 1) THEN << pos + 1 >> ELSE <<>>)

\* a|b|c: the alternatives are tried in the order written
NameEnds(names, s, pos) ==
    LET hits == SelectSeq(names, LAMBDA n : HasAt(s, pos, n))
    IN  [i \in 1..Len(hits) |-> pos + Len(hits[i])]

RECURSIVE ClassRun(_, _, _)
\* how many characters from pos on are in the class
ClassRun(chars, s, pos) ==
    IF pos > Len(s) \/ s[pos] \notin chars THEN 0
    ELSE 1 + ClassRun(chars, s, pos + 1)

\* where a group may end when it starts at pos, best first
Candidates(g, s, pos) ==
    CASE g.kind = "year" -> IF DigitsAt(s, pos, 4) THEN << pos + 4 >> ELSE <<>>
      [] g.kind = "day" -> DigitEnds(s, pos)
      [] g.kind = "month" -> DigitEnds(s, pos) \o NameEnds(g.names, s, pos)
      [] g.kind = "weekday" -> NameEnds(g.names, s, pos)
      [] OTHER -> [k \in 1..ClassRun(g.chars, s, pos) |-> pos + k]   \* [..]+?

RECURSIVE MatchFrom(_, _, _, _, _)
RECURSIVE TryEach(_, _, _, _, _, _)
\* groups i.. of pat against s from pos; anchored: the match must end the string
MatchFrom(pat, i, s, pos, anchored) ==
    IF i > Len(pat)
    THEN IF anchored /\ pos # Len(s) + 1 THEN NoMatch
         ELSE [ok |-> TRUE, caps |-> <<>>, start |-> pos, end |-> pos]
    ELSE TryEach(pat, i, s, pos, anchored, Candidates(pat[i], s, pos))

TryEach(pat, i, s, pos, anchored, ends) ==
    IF ends = <<>> THEN NoMatch
    ELSE LET rest == MatchFrom(pat, i + 1, s, Head(ends), anchored)
         IN  IF rest.ok
             THEN [ok |-> TRUE,
                   caps |-> << [name |-> pat[i].kind,
                                value |-> SubSeq(s, pos, Head(ends) - 1)] >> \o rest.caps,
                   start |-> pos, end |-> rest.end]
             ELSE TryEach(pat, i, s, pos, anchored, Tail(ends))

\* an exec that matches at lastIndex only, as a pattern that starts with ^ does
ExecAtStart(pat, s, lastIndex) ==
    IF lastIndex > Len(s) + 1 THEN NoMatch
    ELSE MatchFrom(pat, 1, s, lastIndex, FALSE)

RECURSIVE Exec(_, _, _)
\* RegExp.prototype.exec from lastIndex: the leftmost match of an unanchored pattern
Exec(pat, s, lastIndex) ==
    IF lastIndex > Len(s) + 1 THEN NoMatch
    ELSE LET m == MatchFrom(pat, 1, s, lastIndex, FALSE)
         IN  IF m.ok THEN m ELSE Exec(pat, s, lastIndex + 1)

\* NamedRegExp.match of a pattern written ^...$
MatchWhole(pat, s) == MatchFrom(pat, 1, s, 1, TRUE)

\* match[names[name]]: the text the named group captured, undefined without the group
GroupValue(m, name) ==
    LET hits == SelectSeq(m.caps, LAMBDA c : c.name = name)
    IN  IF hits = <<>> THEN Undefined ELSE Head(hits).value

-----------------------------------------------------------------------------
(* Formatters and ImprovedDateTimeFormat                                   *)

\* the keys of an object, as a set
KeySet(o) == { k \in {"year", "month", "day", "weekday"} : HasKey(o, k) }

\* Formatters.dateTimeFormat(locale, options): the host formatter is built from a
\* fresh object {...options, timeZone: 'UTC'}. `given` is the keys the host
\* leaves in that object (env.deletes are the keys the host's constructor
\* removes from its argument), `argument` the keys of `options` afterwards
Formatters_dateTimeFormat(keys, env) ==
    [given |-> (keys \cup {"timeZone"}) \ env.deletes, argument |-> keys]

\* ImprovedDateTimeFormat.create: clone = {...options}; keys = the number of its
\* keys; the error is thrown when the clone has another number of keys after
\* the host formatter was built
ImprovedDateTimeFormat_create(o, env) ==
    The({ IF Cardinality(built.argument) # Cardinality(KeySet(o))
          THEN Throw("Unsupported DateTimeFormat options provided")
          ELSE Return(built.given)
          : built \in { Formatters_dateTimeFormat(KeySet(o), env) } })

\* ImprovedDateTimeFormat.format: characters(delegate.format(date)).join("")
ImprovedDateTimeFormat_format(loc, o, d) == HostFormat(loc, o, d)

-----------------------------------------------------------------------------
(* FormatToParts: the format-part emulation engine                         *)

probeYear == 3333

probeMonthValue == 11

probeDay == 20

probeWeekdayValue == 5

\* FormatToParts.formatted: the rendering of the probe date
formatted(loc, o) ==
    ImprovedDateTimeFormat_format(loc, o, date(probeYear, probeMonthValue, probeDay))

\* (this as any)[key]: the known rendering of a field of the probe
ProbeValue(loc, o, key) ==
    CASE key = "year" -> ToDigits(probeYear)
      [] key = "month" -> months(loc, o)[probeMonthValue]
      [] key = "day" -> ToDigits(probeDay)
      [] OTHER -> weekdays(loc, o)[probeWeekdayValue]

\* FormatToParts.learningNamesPattern: (?:(?<key>probe)|...), one group per key
learningNamesPattern(loc, o) ==
    [i \in 1..Len(Keys(o)) |->
        [name |-> Keys(o)[i], body |-> ProbeValue(loc, o, Keys(o)[i])]]

Matched(n, v) == [match |-> TRUE, name |-> n, value |-> v]

Unmatched(v) == [match |-> FALSE, name |-> "", value |-> v]

RECURSIVE Iterate(_, _, _, _)
\* NamedRegExp.iterate: the matches of the alternation and the text between them
Iterate(alts, s, pos, pending) ==
    LET flush == IF pending = <<>> THEN <<>> ELSE << Unmatched(pending) >>
        hits  == SelectSeq(alts, LAMBDA a : a.body # <<>> /\ HasAt(s, pos, a.body))
    IN  IF pos > Len(s) THEN flush
        ELSE IF hits # <<>>
        THEN flush \o << Matched(Head(hits).name, Head(hits).body) >>
                   \o Iterate(alts, s, pos + Len(Head(hits).body), <<>>)
        ELSE Iterate(alts, s, pos + 1, Append(pending, s[pos]))

Range(s) == { s[i] : i \in 1..Len(s) }

\* the general pattern of a discovered field, the character class of a literal run
ActualGroup(loc, o, item) ==
    IF item.match
    THEN CASE item.name = "month" ->
                Group("month", DatumLookup_pattern(Months_dataFor(loc, o)), {})
           [] item.name = "weekday" ->
                Group("weekday", DatumLookup_pattern(Weekdays_dataFor(loc, o)), {})
           [] OTHER -> Group(item.name, <<>>, {})
    ELSE Group("literal", <<>>, Range(item.value))

\* FormatToParts.actualNamesPattern: "^" + groups + "$"
actualNamesPattern(loc, o) ==
    The({ IF \E i \in 1..Len(items) : items[i].match /\ items[i].value = <<>>
          THEN Throw("")
          ELSE Return([i \in 1..Len(items) |-> ActualGroup(loc, o, items[i])])
          : items \in { Iterate(learningNamesPattern(loc, o), formatted(loc, o),
                                1, <<>>) } })

\* the learning pattern found at least one field in the probe's rendering
LearningMatches(loc, o) ==
    LET items == Iterate(learningNamesPattern(loc, o), formatted(loc, o), 1, <<>>)
    IN  \E i \in 1..Len(items) : items[i].match

\* a Months or a Weekdays lookup
Lookup(k, d) == [kind |-> k, data |-> d]

Lookup_parse(lookup, name) ==
    IF lookup.kind = "months" THEN Months_parse(lookup.data, name)
    ELSE DatumLookup_parse(lookup.data, name)

\* FormatToParts.parsable: Boolean(lookup.parse(value)), false when parse throws
parsable(lookup, name) == Lookup_parse(lookup, name).ok

\* a getType that asks the weekdays lookup before the months lookup
getTypeWeekdayFirst(monthsLookup, weekdaysLookup, type, name) ==
    IF type = "month" \/ type = "weekday"
    THEN IF parsable(weekdaysLookup, name) THEN "weekday"
         ELSE IF parsable(monthsLookup, name) THEN "month"
         ELSE "literal"
    ELSE type

\* FormatToParts.getType
getType(monthsLookup, weekdaysLookup, type, name) ==
    IF type = "month" \/ type = "weekday"
    THEN IF parsable(monthsLookup, name) THEN "month"
         ELSE IF parsable(weekdaysLookup, name) THEN "weekday"
         ELSE "literal"
    ELSE type

\* an inner loop that runs once: `if` where the code has `while`
MergeNextOnce(ps, i) ==
    IF i + 1 <= Len(ps) /\ ps[i + 1].type = "literal"
    THEN SubSeq(ps, 1, i - 1)
         \o << Part(ps[i].type, ps[i].value \o ps[i + 1].value) >>
         \o SubSeq(ps, i + 2, Len(ps))
    ELSE ps

RECURSIVE MergeNext(_, _)
\* the inner loop: while the part after i is a literal, append its value to
\* part i and splice it out
MergeNext(ps, i) ==
    IF i + 1 <= Len(ps) /\ ps[i + 1].type = "literal"
    THEN MergeNext(SubSeq(ps, 1, i - 1)
                   \o << Part(ps[i].type, ps[i].value \o ps[i + 1].value) >>
                   \o SubSeq(ps, i + 2, Len(ps)), i)
    ELSE ps

RECURSIVE CollapseFrom(_, _)
CollapseFrom(ps, i) ==
    IF i > Len(ps) THEN ps
    ELSE IF ps[i].type = "literal" THEN CollapseFrom(MergeNext(ps, i), i + 1)
    ELSE CollapseFrom(ps, i + 1)

RECURSIVE DropAfterLiteral(_, _)
\* a collapse that splices the following literals out without appending their
\* values to the current one
DropAfterLiteral(ps, i) ==
    IF i > Len(ps) THEN ps
    ELSE IF ps[i].type = "literal" /\ i + 1 <= Len(ps) /\ ps[i + 1].type = "literal"
    THEN DropAfterLiteral(SubSeq(ps, 1, i) \o SubSeq(ps, i + 2, Len(ps)), i)
    ELSE DropAfterLiteral(ps, i + 1)

collapseLiteralsDropping(ps) == DropAfterLiteral(ps, 1)

\* FormatToParts.collapseLiterals
collapseLiterals(ps) == CollapseFrom(ps, 1)

\* FormatToParts.formatToParts
formatToParts(loc, o, d) ==
    The({ IF ~regex.ok THEN regex
          ELSE The({ IF ~m.ok THEN Throw("did not match")
                     ELSE Return(collapseLiterals(
                            [i \in 1..Len(m.caps) |->
                                Part(getType(monthsLookup, weekdaysLookup,
                                             m.caps[i].name, m.caps[i].value),
                                     m.caps[i].value)]))
                     : m \in { MatchWhole(regex.value,
                                          ImprovedDateTimeFormat_format(loc, o, d)) } })
          : regex \in { actualNamesPattern(loc, o) },
            monthsLookup \in { Lookup("months", Months_dataFor(loc, o)) },
            weekdaysLookup \in { Lookup("weekdays", Weekdays_dataFor(loc, o)) } })

-----------------------------------------------------------------------------
(* Format strings: "dd MMM yyyy"                                           *)

Sentinels == {"y", "M", "d", "E"}

\* typeFrom: the field of a run of format characters
typeFrom(run) ==
    CASE "y" \in Range(run) -> "year"
      [] "M" \in Range(run) -> "month"
      [] "d" \in Range(run) -> "day"
      [] "E" \in Range(run) -> "weekday"
      [] OTHER -> "Illegal Argument"

\* a formatFrom that takes a run longer than the longest width for that width
formatFromAtLeast(type, length) ==
    CASE type = "year" /\ length >= 4 -> "numeric"
      [] type = "year" /\ length = 2 -> "2-digit"
      [] type = "month" /\ length >= 4 -> "long"
      [] type = "month" /\ length = 3 -> "short"
      [] type = "month" /\ length = 2 -> "2-digit"
      [] type = "month" /\ length = 1 -> "numeric"
      [] type = "day" /\ length >= 2 -> "2-digit"
      [] type = "day" /\ length = 1 -> "numeric"
      [] type = "weekday" /\ length >= 4 -> "long"
      [] type = "weekday" /\ length = 3 -> "short"
      [] OTHER -> "Illegal Argument"

\* formatFrom: the width a run length stands for
formatFrom(type, length) ==
    CASE type = "year" /\ length = 4 -> "numeric"
      [] type = "year" /\ length = 2 -> "2-digit"
      [] type = "month" /\ length = 4 -> "long"
      [] type = "month" /\ length = 3 -> "short"
      [] type = "month" /\ length = 2 -> "2-digit"
      [] type = "month" /\ length = 1 -> "numeric"
      [] type = "day" /\ length = 2 -> "2-digit"
      [] type = "day" /\ length = 1 -> "numeric"
      [] type = "weekday" /\ length = 4 -> "long"
      [] type = "weekday" /\ length = 3 -> "short"
      [] OTHER -> "Illegal Argument"

RECURSIVE RunLength(_, _, _)
\* the length of the run of character c from pos on: y+, M+, d+ or E+
RunLength(s, pos, c) ==
    IF pos > Len(s) \/ s[pos] # c THEN 0 ELSE 1 + RunLength(s, pos + 1, c)

RECURSIVE ScanFormat(_, _, _)
\* replace(formatRegex, format, matched, unmatched): the runs and the text between
ScanFormat(s, pos, pending) ==
    LET flush == IF pending = <<>> THEN <<>> ELSE << Part("literal", pending) >>
        n == RunLength(s, pos, s[pos])
        type == typeFrom(SubSeq(s, pos, pos + n - 1))
    IN  IF pos > Len(s) THEN flush
        ELSE IF s[pos] \in Sentinels
        THEN flush \o << Part(type, formatFrom(type, n)) >> \o ScanFormat(s, pos + n, <<>>)
        ELSE ScanFormat(s, pos + 1, Append(pending, s[pos]))

\* partsFrom(format)
partsFrom(f) ==
    The({ IF \E i \in 1..Len(ps) :
                ps[i].type # "literal" /\ ps[i].value = "Illegal Argument"
          THEN Throw("Illegal Argument")
          ELSE Return(ps)
          : ps \in { ScanFormat(f, 1, <<>>) } })

\* optionsFrom(parts): the last part of a field sets its option
optionsFrom(ps) ==
    LET of(k) == LET hits == SelectSeq(ps, LAMBDA p : p.type = k)
                 IN  IF hits = <<>> THEN "none" ELSE hits[Len(hits)].value
    IN  Opts(of("year"), of("month"), of("day"), of("weekday"))

\* valueFromParts(parts, type)
valueFromParts(ps, type) ==
    Join(PartValues(SelectSeq(ps, LAMBDA p : p.type = type)))

\* SimpleFormat.formatToParts
SimpleFormat_formatToParts(loc, f, d) ==
    The({ IF ~partsInOrder.ok THEN partsInOrder
          ELSE The({ IF ~partsWithValues.ok THEN partsWithValues
                     ELSE Return([i \in 1..Len(partsInOrder.value) |->
                            LET p == partsInOrder.value[i]
                            IN  Part(p.type,
                                     IF p.type = "literal" THEN p.value
                                     ELSE valueFromParts(partsWithValues.value, p.type))])
                     : partsWithValues \in
                         { formatToParts(loc, optionsFrom(partsInOrder.value), d) } })
          : partsInOrder \in { partsFrom(f) } })

\* format(value, locale, options): Formatters.create(locale, options).format(value)
format(d, loc, o) ==
    IF IsString(o)
    THEN The({ IF ps.ok THEN Return(Join(PartValues(ps.value))) ELSE ps
               : ps \in { SimpleFormat_formatToParts(loc, o.format, d) } })
    ELSE Return(ImprovedDateTimeFormat_format(loc, o, d))

\* ImprovedDateTimeFormat.formatToParts
ImprovedDateTimeFormat_formatToParts(loc, o, d, env) ==
    IF env.formatToParts THEN Return(HostFormatToParts(loc, o, d))
    ELSE formatToParts(loc, o, d)

\* formatData(value, locale, options, native)
formatData(d, loc, o, nat, env) ==
    IF nat THEN ImprovedDateTimeFormat_formatToParts(loc, o, d, env)
    ELSE formatToParts(loc, o, d)

-----------------------------------------------------------------------------
(* RegexBuilder and RegexParser                                            *)

\* an options argument that was not passed
UndefinedOptions ==
    [format |-> <<>>, year |-> "undefined", month |-> "undefined",
     day |-> "undefined", weekday |-> "undefined"]

\* formatBuilder(locale, format): the parts of the format string
formatBuilder(loc, f) == partsFrom(f)

\* RegexBuilder.create: the parts the pattern is built from; `now` is new Date()
RegexBuilder_create(loc, o, nat, env, now) ==
    IF IsString(o) THEN formatBuilder(loc, o.format)
    ELSE formatData(now, loc, o, nat, env)

LowerNames(names) == [i \in 1..Len(names) |-> toLocaleLowerCase(names[i])]

\* this.months.pattern.toLocaleLowerCase(this.locale), per locale
MonthsPattern ==
    [loc \in Locales |-> LowerNames(DatumLookup_pattern(Months_get(loc)))]

\* this.weekdays.pattern.toLocaleLowerCase(this.locale), per locale
WeekdaysPattern ==
    [loc \in Locales |-> LowerNames(DatumLookup_pattern(Weekdays_get(loc)))]

\* a named pattern whose month group knows the long names only
PatternGroupLongNames(loc, part) ==
    CASE part.type = "year" -> Group("year", <<>>, {})
      [] part.type = "month" ->
            Group("month", LowerNames(DatumLookup_pattern(Months_dataFor(loc, LongNames))), {})
      [] part.type = "day" -> Group("day", <<>>, {})
      [] part.type = "weekday" -> Group("weekday", WeekdaysPattern[loc], {})
      [] OTHER -> Group("literal", <<>>, Range(part.value \o <<" ">>))

\* one part of the named pattern of RegexBuilder.regexParser
PatternGroup(loc, part) ==
    CASE part.type = "year" -> Group("year", <<>>, {})
      [] part.type = "month" -> Group("month", MonthsPattern[loc], {})
      [] part.type = "day" -> Group("day", <<>>, {})
      [] part.type = "weekday" -> Group("weekday", WeekdaysPattern[loc], {})
      [] OTHER -> Group("literal", <<>>, Range(part.value \o <<" ">>))

\* RegexBuilder.regexParser: the pattern of a RegexParser
regexParser(loc, ps) == [i \in 1..Len(ps) |-> PatternGroup(loc, ps[i])]

RECURSIVE OctalValue(_, _)
OctalValue(s, acc) ==
    IF s = <<>> \/ ~IsDigit(Head(s)) THEN acc
    ELSE OctalValue(Tail(s), acc * 8 + DigitValue(Head(s)))

\* a numeric handler that reads the group in base 8
numericOctal(m, name) ==
    IF parseInt(GroupValue(m, name)) = NaN THEN NaN
    ELSE OctalValue(GroupValue(m, name), 0)

\* numeric(index): parseInt of the group
numeric(m, name) == parseInt(GroupValue(m, name))

\* parseMonth(index, months): months.parse(group).number
parseMonth(loc, m) == Months_parse(Months_get(loc), GroupValue(m, "month"))

\* a date of a match that insists on the weekday that was captured being the
\* weekday of the date
DateOfMatchCheckingWeekday(loc, m) ==
    The({ IF ~month.ok THEN month
          ELSE The({ IF GroupValue(m, "weekday") # Undefined
                        /\ DatumLookup_parse(Weekdays_get(loc), GroupValue(m, "weekday")).ok
                        /\ DatumLookup_parse(Weekdays_get(loc),
                                             GroupValue(m, "weekday")).value.number
                             # WeekdayOf(d)
                     THEN Throw("wrong weekday")
                     ELSE Return(d)
                     : d \in { date(numeric(m, "year"), month.value.number,
                                    numeric(m, "day")) } })
          : month \in { parseMonth(loc, m) } })

\* the date of one match: date(groups.year, groups.month, groups.day)
DateOfMatch(loc, m) ==
    The({ IF ~month.ok THEN month
          ELSE Return(date(numeric(m, "year"), month.value.number, numeric(m, "day")))
          : month \in { parseMonth(loc, m) } })

\* new Error(`Locale "${this.locale}" generated regex ${this.regex} did not
\* match "${lower}" `): the message, and what is interpolated into it
DidNotMatch(loc, regex, lower) ==
    [ok |-> FALSE, value |-> [locale |-> loc, regex |-> regex, text |-> lower],
     error |-> "did not match"]

\* a matcher that does not lower-case the text it is given
RegexParser_parseCaseSensitive(loc, regex, s) ==
    The({ IF ~m.ok THEN DidNotMatch(loc, regex, s) ELSE DateOfMatch(loc, m)
          : m \in { Exec(regex, s, 1) } })

\* a parser whose error quotes the text as it was given
RegexParser_parseQuotingValue(loc, regex, s) ==
    The({ IF ~m.ok THEN DidNotMatch(loc, regex, s) ELSE DateOfMatch(loc, m)
          : m \in { Exec(regex, toLocaleLowerCase(s), 1) } })

\* RegexParser.parse
RegexParser_parse(loc, regex, s) ==
    The({ The({ IF ~m.ok THEN DidNotMatch(loc, regex, lower) ELSE DateOfMatch(loc, m)
                : m \in { Exec(regex, lower, 1) } })
          : lower \in { toLocaleLowerCase(s) } })

RECURSIVE ExecAll(_, _, _, _)
\* the loop of RegexParser.parseAll: exec until there is no further match
ExecAll(loc, regex, lower, lastIndex) ==
    The({ IF ~m.ok THEN Return(<<>>)
          ELSE The({ IF ~d.ok THEN d
                     ELSE The({ IF ~rest.ok THEN rest
                                ELSE Return(<< d.value >> \o rest.value)
                                : rest \in { ExecAll(loc, regex, lower, m.end) } })
                     : d \in { DateOfMatch(loc, m) } })
          : m \in { Exec(regex, lower, lastIndex) } })

\* RegexParser.parseAll
RegexParser_parseAll(loc, regex, s) == ExecAll(loc, regex, toLocaleLowerCase(s), 1)

-----------------------------------------------------------------------------
(* CompositeDateParser and the parser functions                            *)

RECURSIVE TryParsersRethrowing(_, _, _, _)
\* a loop that lets the failure of a candidate end the call
TryParsersRethrowing(loc, ps, i, s) ==
    IF i > Len(ps)
    THEN [outcome |-> Throw("Unable to parse date"), called |-> <<>>]
    ELSE [outcome |-> RegexParser_parse(loc, ps[i], s), called |-> << i >>]

RECURSIVE TryParsers(_, _, _, _)
\* the loop of CompositeDateParser.parse from candidate i on: the outcome and
\* the candidates called
TryParsers(loc, ps, i, s) ==
    IF i > Len(ps)
    THEN [outcome |-> Throw("Unable to parse date"), called |-> <<>>]
    ELSE The({ IF result.ok THEN [outcome |-> result, called |-> << i >>]
               ELSE The({ [outcome |-> later.outcome, called |-> << i >> \o later.called]
                          : later \in { TryParsers(loc, ps, i + 1, s) } })
               : result \in { RegexParser_parse(loc, ps[i], s) } })

\* CompositeDateParser.parse
CompositeDateParser_parse(loc, ps, s) == TryParsers(loc, ps, 1, s)

RECURSIVE flatten(_)
\* flatten of the candidates' results; a candidate that throws ends the call
flatten(results) ==
    IF results = <<>> THEN Return(<<>>)
    ELSE IF ~Head(results).ok THEN Head(results)
    ELSE The({ IF ~rest.ok THEN rest
               ELSE Return(Head(results).value \o rest.value)
               : rest \in { flatten(Tail(results)) } })

\* CompositeDateParser.parseAll
CompositeDateParser_parseAll(loc, ps, s) ==
    flatten([i \in 1..Len(ps) |-> RegexParser_parseAll(loc, ps[i], s)])

DdMmmYyyy == <<"d","d"," ","M","M","M"," ","y","y","y","y">>

defaultParserOptions ==
    << Opts("numeric", "long", "numeric", "long"),
       Opts("numeric", "short", "numeric", "short"),
       Opts("numeric", "numeric", "numeric", "none"),
       Opts("numeric", "short", "numeric", "none"),
       Opts("numeric", "long", "numeric", "none"),
       Fmt(DdMmmYyyy) >>

\* RegexBuilder.create(locale, options, native).regexParser
BuildParser(loc, o, nat, env, now) ==
    The({ IF builder.ok THEN Return(regexParser(loc, builder.value)) ELSE builder
          : builder \in { RegexBuilder_create(loc, o, nat, env, now) } })

\* the candidates of a CompositeDateParser over the option sets os
BuildParsers(loc, os, nat, env, now) ==
    The({ IF \E i \in 1..Len(os) : ~built[i].ok
          THEN built[CHOOSE i \in 1..Len(os) :
                        ~built[i].ok /\ \A j \in 1..(i - 1) : built[j].ok]
          ELSE Return([i \in 1..Len(os) |-> built[i].value])
          : built \in { [i \in 1..Len(os) |-> BuildParser(loc, os[i], nat, env, now)] } })

\* localeParser(locale, options, native).parse(value), options given
localeParser(s, loc, o, nat, env, now) ==
    The({ IF p.ok THEN RegexParser_parse(loc, p.value, s) ELSE p
          : p \in { BuildParser(loc, o, nat, env, now) } })

\* localeParser(locale, undefined, native).parse(value): the default candidates
defaultParser(s, loc, nat, env, now) ==
    The({ IF ps.ok THEN CompositeDateParser_parse(loc, ps.value, s).outcome ELSE ps
          : ps \in { BuildParsers(loc, defaultParserOptions, nat, env, now) } })

\* parse(value, locale, options, native)
parse(s, loc, o, nat, env, now) ==
    IF o = UndefinedOptions THEN defaultParser(s, loc, nat, env, now)
    ELSE localeParser(s, loc, o, nat, env, now)



-----------------------------------------------------------------------------
(* Inputs                                                                  *)

\* the option sets of the tests, of defaultParserOptions, and ones that ask for
\* a two-digit year or leave a field out
OptionSets ==
    { defaultParserOptions[i] : i \in 1..Len(defaultParserOptions) }
    \cup { Opts("numeric", "numeric", "numeric", "long"),
           Opts("numeric", "short", "2-digit", "none"),
           Opts("numeric", "2-digit", "2-digit", "short"),
           Opts("2-digit", "short", "numeric", "short"),
           Opts("2-digit", "numeric", "numeric", "none"),
           Opts("2-digit", "none", "none", "none"),
           Opts("none", "long", "numeric", "none") }

\* the option sets that are records, not format strings
RecordOptionSets == { o \in OptionSets : ~IsString(o) }

\* the dates of the tests (a Tuesday, a Friday, a day that reads as a month,
\* May, whose long and short names agree) and years of three and five digits
Dates ==
    { date(2018, 12, 18), date(2019, 1, 25), date(2019, 1, 15), date(2019, 5, 12),
      date(2001, 6, 28), date(2019, 2, 1), date(999, 1, 25), date(10000, 12, 1) }

\* what new Date() may be when a pattern is derived: a Friday, a Tuesday
NowDates == { date(2019, 1, 25), date(2019, 1, 15) }

\* a host with or without Intl.DateTimeFormat.prototype.formatToParts, whose
\* constructor deletes nothing from the options it is given
Hosts == [formatToParts : BOOLEAN, deletes : {{}}]

\* nothing has been formatted or parsed
NoDates ==
    /\ text = <<>>
    /\ parsed = None
    /\ previous = None
    /\ parsers = <<>>
    /\ consulted = <<>>

\* the format-part engine has not run
NoParts ==
    /\ raw = <<>>
    /\ parts = <<>>
    /\ schema = None

\* nothing has been scanned
NoScan ==
    /\ document = <<>>
    /\ found = None

\* no factory has been called
NoMemo ==
    /\ cache = <<>>
    /\ derivations = <<>>
    /\ returned = None

\* no currency lookup has been asked for
NoSymbols ==
    /\ symbols = <<>>
    /\ callers = <<>>
    /\ looked = None

\* no name has been handed to a lookup
NoLookups ==
    /\ asked = <<>>
    /\ answered = <<>>

\* no template has been read
NoTemplates ==
    /\ template = <<>>
    /\ layout = None

\* nothing has been taken
NoTake ==
    /\ source = <<>>
    /\ requested = 0
    /\ count = 0
    /\ pulled = 0
    /\ taken = <<>>

\* nothing of the scenarios after the currency lookups has happened
NoLater == NoLookups /\ NoTemplates /\ NoTake

\* nothing of the later scenarios has happened
NoRest == NoMemo /\ NoSymbols /\ NoLater

-----------------------------------------------------------------------------
(* Spec: format a date, parse the string back, re-case it and parse again  *)

Init ==
    /\ pc = "start"
    /\ locale \in Locales
    /\ options \in OptionSets
    /\ native \in BOOLEAN
    /\ host \in Hosts
    /\ (~native => host.formatToParts)   \* consulted only when native is asked for
    /\ value \in Dates
    /\ NoDates
    /\ NoParts
    /\ NoScan
    /\ created = None
    /\ NoRest

\* format(value, locale, options)
Format ==
    /\ pc = "start"
    /\ \E formattedValue \in { format(value, locale, options) } :
           /\ formattedValue.ok
           /\ text' = formattedValue.value
    /\ pc' = "formatted"
    /\ UNCHANGED << inputs, parsed, previous, parsers, consulted, partVars,
                    scanVars, created, restVars >>

\* parse(text, locale, options, native); RegexBuilder.create keeps what it built
Parse ==
    /\ pc = "formatted"
    /\ \E now \in NowDates :
          /\ parsed' = parse(text, locale, options, native, host, now)
          /\ parsers' = The({ IF p.ok THEN << p.value >> ELSE <<>>
                              : p \in { BuildParser(locale, options, native, host, now) } })
    /\ pc' = "parsed"
    /\ UNCHANGED << inputs, text, previous, consulted, partVars, scanVars, created, restVars >>

\* parse(text, locale): no options, the default candidates are tried in order
ParseDefault ==
    /\ pc = "formatted"
    /\ \E now \in NowDates :
       \E candidates \in
            { BuildParsers(locale, defaultParserOptions, native, host, now) } :
          IF candidates.ok
          THEN \E result \in { CompositeDateParser_parse(locale, candidates.value, text) } :
                  /\ parsed' = result.outcome
                  /\ consulted' = result.called
                  /\ parsers' = candidates.value
          ELSE parsed' = candidates /\ consulted' = <<>> /\ parsers' = <<>>
    /\ pc' = "parsedDefault"
    /\ UNCHANGED << inputs, text, previous, partVars, scanVars, created, restVars >>

InvertChar(c) == IF LowerChar(c) = c THEN UpperChar(c) ELSE LowerChar(c)

\* the same text in another letter case: all upper, all lower, or inverted
Recasings(s) ==
    { toLocaleUpperCase(s), toLocaleLowerCase(s), [i \in 1..Len(s) |-> InvertChar(s[i])] }

\* the caller changes the letter case of the text it parsed
Recase ==
    /\ pc = "parsed"
    /\ \E s \in Recasings(text) : text' = s
    /\ previous' = parsed
    /\ pc' = "recased"
    /\ UNCHANGED << inputs, parsed, parsers, consulted, partVars, scanVars, created, restVars >>

\* parse(text, locale, options, native) once more: the cached pattern is used,
\* and a pattern is built only if none could be built before
ParseAgain ==
    /\ pc = "recased"
    /\ \E now \in NowDates :
          parsed' = IF parsers # <<>> THEN RegexParser_parse(locale, parsers[1], text)
                    ELSE parse(text, locale, options, native, host, now)
    /\ pc' = "reparsed"
    /\ UNCHANGED << inputs, text, previous, parsers, consulted, partVars, scanVars,
                    created, restVars >>

Next == Format \/ Parse \/ ParseDefault \/ Recase \/ ParseAgain

Spec == Init /\ [][Next]_vars


-----------------------------------------------------------------------------
(* Properties of Spec                                                      *)

\* C1 -- round trip: for every locale, options record and date, parsing the
\* string that format produced, with the same locale and options, returns the
\* date that was formatted
C1_RoundTrip ==
    (pc = "parsed" /\ ~IsString(options)) => parsed = Return(value)

\* what each candidate of the composite parser makes of the text
CandidateOutcomes ==
    [i \in 1..Len(parsers) |-> RegexParser_parse(locale, parsers[i], text)]

\* C4 -- CompositeDateParser.parse calls its candidates in list order, each at
\* most once, and stops at the first that succeeds, whose result it returns;
\* the failures before it are swallowed; "Unable to parse date" is thrown if
\* and only if every candidate failed
C4_FirstSuccessWins ==
    (pc = "parsedDefault" /\ parsers # <<>>) =>
        \E outcomes \in { CandidateOutcomes } :
            /\ Len(consulted) \in 1..Len(parsers)
            /\ \A i \in 1..Len(consulted) : consulted[i] = i
            /\ \A i \in 1..(Len(consulted) - 1) : ~outcomes[i].ok
            /\ IF \E i \in 1..Len(parsers) : outcomes[i].ok
               THEN /\ outcomes[Len(consulted)].ok
                    /\ parsed = outcomes[Len(consulted)]
               ELSE /\ Len(consulted) = Len(parsers)
                    /\ parsed = Throw("Unable to parse date")

\* the composite parser returned the third candidate's date after the first
\* two candidates, which want a weekday, had thrown
C4_ThirdCandidateWon ==
    /\ pc = "parsedDefault"
    /\ locale = "en-GB"
    /\ text = <<"1","8","/","1","2","/","2","0","1","8">>
    /\ consulted = << 1, 2, 3 >>
    /\ parsed = Return(date(2018, 12, 18))

\* C6 -- parse without options succeeds on every string format produces under
\* one of the default candidate option sets, and returns the date formatted
C6_DefaultsParseTheirOwnOutput ==
    (pc = "parsedDefault"
        /\ options \in { defaultParserOptions[i] : i \in 1..Len(defaultParserOptions) })
    => parsed = Return(value)

\* C7 -- for a given locale and options, a text and the same text in another
\* letter case are parsed to the same date
C7_CaseInsensitive ==
    (pc = "reparsed" /\ previous.ok) => parsed = previous

\* a text with long month and weekday names was parsed, turned to another
\* letter case, and parsed to the same date again
C7_RecasedNamesParsed ==
    /\ pc = "reparsed"
    /\ options.month = "long"
    /\ options.weekday = "long"
    /\ text # toLocaleLowerCase(text)
    /\ previous = Return(value)
    /\ parsed = Return(value)


RECURSIVE StripZeros(_)
\* a digit string without its leading zeros
StripZeros(s) ==
    IF Len(s) > 1 /\ Head(s) = "0" THEN StripZeros(Tail(s)) ELSE s

\* the match the cached pattern makes of the text that was parsed
ParsedMatch == Exec(parsers[1], toLocaleLowerCase(text), 1)

\* date.toISOString(): the UTC midnight of a date of a four-digit year
toISOString(d) ==
    ToDigits(d.year) \o <<"-">> \o Pad2(d.month) \o <<"-">> \o Pad2(d.day)
    \o <<"T","0","0",":","0","0",":","0","0",".","0","0","0","Z">>

\* C13 -- the year and the day of a parsed date are their captures read as
\* base-10 integers; a month capture of digits n is month n, counted from 1;
\* any other month capture is the month the locale's lookup has under that
\* name; date(2000, 1, 2) is 2000-01-02T00:00:00.000Z
C13_NumericSemantics ==
    /\ toISOString(date(2000, 1, 2))
         = <<"2","0","0","0","-","0","1","-","0","2",
             "T","0","0",":","0","0",":","0","0",".","0","0","0","Z">>
    /\ (pc = "parsed" /\ parsed.ok /\ parsers # <<>>) =>
         \E m \in { ParsedMatch } :
         \E y \in { GroupValue(m, "year") }, mm \in { GroupValue(m, "month") },
            d \in { GroupValue(m, "day") } :
            /\ m.ok
            /\ y # Undefined => ToDigits(parsed.value.year) = StripZeros(y)
            /\ d # Undefined => ToDigits(parsed.value.day) = StripZeros(d)
            /\ mm # Undefined
            /\ IF IsDigit(Head(mm))
               THEN /\ ToDigits(parsed.value.month) = StripZeros(mm)
                    /\ parsed.value.month \in 1..12
               ELSE \E w \in {"long", "short"} :
                       toLocaleLowerCase(MonthNames(locale, w)[parsed.value.month]) = mm

\* a text with a day written 01 and a month written as a name was parsed
C13_ZeroPaddedDayNamedMonth ==
    /\ pc = "parsed"
    /\ parsers # <<>>
    /\ parsed = Return(date(2019, 2, 1))
    /\ GroupValue(ParsedMatch, "day") = <<"0","1">>
    /\ GroupValue(ParsedMatch, "month") = <<"f","e","b">>


\* C17 -- when the pattern of a RegexParser does not match the lower-cased
\* input, parse throws an Error whose message carries the locale, the pattern
\* and the lower-cased text
C17_ErrorNamesLocaleRegexAndText ==
    (pc = "parsed" /\ parsers # <<>> /\ ~ParsedMatch.ok) =>
        /\ ~parsed.ok
        /\ parsed.error = "did not match"
        /\ parsed.value.locale = locale
        /\ parsed.value.regex = parsers[1]
        /\ parsed.value.text = toLocaleLowerCase(text)

\* a text with a capital letter did not match, and the error quotes it in
\* lower case
C17_CapitalisedTextRejected ==
    /\ pc = "parsed"
    /\ parsers # <<>>
    /\ ~parsed.ok
    /\ parsed.error = "did not match"
    /\ text # toLocaleLowerCase(text)
    /\ parsed.value.text = toLocaleLowerCase(text)

-----------------------------------------------------------------------------
(* SpecParts: the format-part emulation engine, step by step               *)

\* the parts a raw sequence is made of: two literals and a field
PartAlphabet ==
    { Part("literal", <<",">>), Part("literal", <<" ">>), Part("day", <<"1">>) }

MaxParts == 3

\* the part sequences handed to collapseLiterals
RawParts == UNION { [1..n -> PartAlphabet] : n \in 0..MaxParts }

\* a Tuesday, a Monday in March, and a date of the probe's century
PartDates == { date(2019, 1, 15), date(2019, 3, 25), date(2033, 1, 25) }

\* the names of the groups of a schema pattern
GroupNames == {"year", "month", "day", "weekday"}

\* the tokens a group may capture: the month and weekday names of the locale,
\* a number, and a token that is no name
Tokens(loc) ==
    { Months_get(loc)[i].name : i \in 1..Len(Months_get(loc)) }
    \cup { Weekdays_get(loc)[i].name : i \in 1..Len(Weekdays_get(loc)) }
    \cup { <<"1", "1">>, <<"n", "o">> }

InitParts ==
    /\ pc = "start"
    /\ locale \in Locales
    /\ options \in RecordOptionSets
    /\ native = FALSE
    /\ host = [formatToParts |-> FALSE, deletes |-> {}]
    /\ value \in PartDates
    /\ NoDates
    /\ NoParts
    /\ NoScan
    /\ created = None
    /\ NoRest

\* FormatToParts.actualNamesPattern: the schema pattern is learnt from the probe
Learn ==
    /\ pc = "start"
    /\ schema' = actualNamesPattern(locale, options)
    /\ pc' = "learned"
    /\ UNCHANGED << inputs, dateVars, raw, parts, scanVars, created, restVars >>

\* FormatToParts.formatToParts(value)
Emulate ==
    /\ pc = "learned"
    /\ text' = ImprovedDateTimeFormat_format(locale, options, value)
    /\ \E result \in { formatToParts(locale, options, value) } :
          IF result.ok
          THEN parts' = result.value /\ pc' = "typed"
          ELSE parts' = <<>> /\ pc' = "rejected"
    /\ UNCHANGED << inputs, parsed, previous, parsers, consulted, raw, schema,
                    scanVars, created, restVars >>

\* FormatToParts.collapseLiterals(raw)
Collapse ==
    /\ pc = "start"
    /\ \E r \in RawParts :
          /\ raw' = r
          /\ parts' = collapseLiterals(r)
    /\ pc' = "collapsed"
    /\ UNCHANGED << inputs, dateVars, schema, scanVars, created, restVars >>

\* the step of formatToParts that types one captured group:
\* {type: this.getType(m.name, m.value), value: m.value}
GetType ==
    /\ pc = "start"
    /\ \E name \in GroupNames, token \in Tokens(locale) :
          /\ raw' = << Part(name, token) >>
          /\ parts' = << Part(getType(Lookup("months", Months_dataFor(locale, options)),
                                      Lookup("weekdays", Weekdays_dataFor(locale, options)),
                                      name, token),
                              token) >>
    /\ pc' = "labelled"
    /\ UNCHANGED << inputs, dateVars, schema, scanVars, created, restVars >>

NextParts == Learn \/ Emulate \/ Collapse \/ GetType

SpecParts == InitParts /\ [][NextParts]_vars

-----------------------------------------------------------------------------
(* Properties of SpecParts                                                 *)

AdjacentLiterals(ps) ==
    \E i \in 1..(Len(ps) - 1) : ps[i].type = "literal" /\ ps[i + 1].type = "literal"

\* C2 -- the part sequence that collapseLiterals returns, and so the one that
\* FormatToParts.formatToParts returns, never has two consecutive parts of type
\* 'literal', whatever sequence went in
C2_NoAdjacentLiterals ==
    pc \in {"collapsed", "typed"} => ~AdjacentLiterals(parts)

\* a run of three literals went in and one literal came out
C2_ThreeLiteralsCollapsed ==
    /\ pc = "collapsed"
    /\ Len(raw) = 3
    /\ \A i \in 1..3 : raw[i].type = "literal"
    /\ Len(parts) = 1

\* C3 -- the values of the parts FormatToParts.formatToParts returns, joined in
\* order, are the string the formatter produced; merging literals and
\* relabelling a part keep every character in its place
C3_ValuesReconstructText ==
    /\ pc = "typed" => Join(PartValues(parts)) = text
    /\ pc = "collapsed" => Join(PartValues(parts)) = Join(PartValues(raw))
    /\ pc = "labelled" => PartValues(parts) = PartValues(raw)

\* the engine typed the parts of an Italian Tuesday, whose short weekday name
\* is also a short month name, and the values still spell the formatted string
C3_RelabelledPartsSpellText ==
    /\ pc = "typed"
    /\ locale = "it"
    /\ Len(parts) = 7
    /\ parts[1] = Part("month", <<"m", "a", "r">>)
    /\ text = <<"m","a","r"," ","1","5"," ","g","e","n"," ","2","0","1","9">>
    /\ Join(PartValues(parts)) = text

\* the name is in the table, whatever its letter case
InTable(data, name) ==
    \E i \in 1..Len(data) : toLocaleLowerCase(data[i].name) = toLocaleLowerCase(name)

\* the months lookup of the engine can parse the token: a number or a month name
IsMonthToken(token) ==
    parseInt(token) # NaN \/ InTable(Months_dataFor(locale, options), token)

\* the weekdays lookup of the engine can parse the token
IsWeekdayToken(token) == InTable(Weekdays_dataFor(locale, options), token)

\* C8 -- a token of the month or weekday group is typed 'month' if the months
\* lookup parses it, else 'weekday' if the weekdays lookup parses it, else
\* 'literal'; a token both lookups parse is typed 'month'; a token of the year
\* or day group keeps the type of its group
C8_LateBinding ==
    pc = "labelled" =>
        parts[1].type =
            IF raw[1].type \in {"month", "weekday"}
            THEN IF IsMonthToken(raw[1].value) THEN "month"
                 ELSE IF IsWeekdayToken(raw[1].value) THEN "weekday"
                 ELSE "literal"
            ELSE raw[1].type

\* the weekday group captured the Italian "mar", Tuesday and March alike, and
\* the token was typed 'month'
C8_TokenOfBothTables ==
    /\ pc = "labelled"
    /\ locale = "it"
    /\ raw = << Part("weekday", <<"m", "a", "r">>) >>
    /\ IsMonthToken(raw[1].value)
    /\ IsWeekdayToken(raw[1].value)
    /\ parts[1].type = "month"

\* C9 -- when the learning pattern matches nothing in the probe's rendering,
\* building the schema pattern throws, and no pattern is produced
C9_FailsFast ==
    (pc = "learned" /\ ~LearningMatches(locale, options)) => ~schema.ok


-----------------------------------------------------------------------------
(* SpecScan: dates are written into a text, and parseAll scans the text    *)

ScanDates == { date(2019, 1, 25), date(2018, 12, 18), date(2019, 5, 12) }

MaxDocument == 2

\* the dates written after the first one
Continuations == UNION { [1..n -> ScanDates] : n \in 0..(MaxDocument - 1) }

RECURSIVE Sentence(_)
\* the formatted dates with " and " between them
Sentence(ss) ==
    IF Len(ss) = 1 THEN ss[1]
    ELSE ss[1] \o <<" ", "a", "n", "d", " ">> \o Sentence(Tail(ss))

InitScan ==
    /\ pc = "start"
    /\ locale \in Locales
    /\ options \in { defaultParserOptions[i] : i \in 1..Len(defaultParserOptions) }
    /\ native \in BOOLEAN
    /\ host = [formatToParts |-> TRUE, deletes |-> {}]
    /\ value \in ScanDates
    /\ NoDates
    /\ NoParts
    /\ NoScan
    /\ created = None
    /\ NoRest

\* the caller formats the dates of a document and joins them into one text
Compose ==
    /\ pc = "start"
    /\ \E rest \in Continuations :
       \E formattedDates \in
            { [i \in 1..(1 + Len(rest)) |->
                 format((<< value >> \o rest)[i], locale, options)] } :
          /\ \A i \in 1..Len(formattedDates) : formattedDates[i].ok
          /\ document' = << value >> \o rest
          /\ text' = Sentence([i \in 1..Len(formattedDates) |-> formattedDates[i].value])
    /\ pc' = "composed"
    /\ UNCHANGED << inputs, parsed, previous, parsers, consulted, partVars, found,
                    created, restVars >>

\* parser(locale).parseAll(text): CompositeDateParser.parseAll over the default
\* candidates
ScanAll ==
    /\ pc = "composed"
    /\ \E now \in NowDates :
       \E candidates \in
            { BuildParsers(locale, defaultParserOptions, native, host, now) } :
          /\ parsers' = candidates.value
          /\ found' = IF candidates.ok
                      THEN CompositeDateParser_parseAll(locale, candidates.value, text)
                      ELSE candidates
    /\ pc' = "scanned"
    /\ UNCHANGED << inputs, text, parsed, previous, consulted, partVars, document,
                    created, restVars >>

\* parser(locale, options).parseAll(text): RegexParser.parseAll of one pattern
ScanWith ==
    /\ pc = "composed"
    /\ \E now \in NowDates :
       \E p \in { BuildParser(locale, options, native, host, now) } :
          /\ parsers' = IF p.ok THEN << p.value >> ELSE <<>>
          /\ found' = IF p.ok THEN RegexParser_parseAll(locale, p.value, text) ELSE p
    /\ pc' = "scannedWith"
    /\ UNCHANGED << inputs, text, parsed, previous, consulted, partVars, document,
                    created, restVars >>

NextScan == Compose \/ ScanAll \/ ScanWith

SpecScan == InitScan /\ [][NextScan]_vars

-----------------------------------------------------------------------------
(* Properties of SpecScan                                                  *)

\* C5 -- CompositeDateParser.parseAll returns one date per occurrence of a date
\* in the text, in the order of the text: an occurrence that several candidates
\* match is returned once
C5_OneDatePerOccurrence ==
    (pc = "scanned" /\ found.ok) => found.value = document

-----------------------------------------------------------------------------
(* SpecCreate: ImprovedDateTimeFormat.create on hosts that delete keys of  *)
(* the options object their constructor is given                           *)

HostKeys == {"year", "month", "day", "weekday", "timeZone"}

MaxDeleted == 1

\* hosts whose constructor deletes up to MaxDeleted keys from its argument
MutatingHosts ==
    { [formatToParts |-> f, deletes |-> ks] :
        f \in BOOLEAN, ks \in { S \in SUBSET HostKeys : Cardinality(S) <= MaxDeleted } }

InitCreate ==
    /\ pc = "start"
    /\ locale \in Locales
    /\ options \in RecordOptionSets
    /\ host \in MutatingHosts
    /\ native = host.formatToParts
    /\ value = date(2019, 1, 25)
    /\ NoDates
    /\ NoParts
    /\ NoScan
    /\ created = None
    /\ NoRest

\* new ImprovedDateTimeFormat(locale, options): the delegate is created; the
\* caller's options are read into the clone and left as they are
Create ==
    /\ pc = "start"
    /\ created' = ImprovedDateTimeFormat_create(options, host)
    /\ options' = options
    /\ pc' = "created"
    /\ UNCHANGED << locale, native, host, value, dateVars, partVars, scanVars, restVars >>

\* ImprovedDateTimeFormat.format(value) through the delegate that was created
Delegate ==
    /\ pc = "created"
    /\ created.ok
    /\ text' = ImprovedDateTimeFormat_format(locale, options, value)
    /\ pc' = "formatted"
    /\ UNCHANGED << inputs, parsed, previous, parsers, consulted, partVars, scanVars,
                    created, restVars >>

NextCreate == Create \/ Delegate

SpecCreate == InitCreate /\ [][NextCreate]_vars

-----------------------------------------------------------------------------
(* Properties of SpecCreate                                                *)

\* the keys of the object the host's constructor is given
GivenKeys == KeySet(options) \cup {"timeZone"}

\* C10 -- creating an ImprovedDateTimeFormat throws 'Unsupported DateTimeFormat
\* options provided' whenever building the host formatter changes the number of
\* keys of the options object it was given, and returns the formatter otherwise
C10_DetectsDeletedKeys ==
    pc = "created" =>
        IF Cardinality(GivenKeys \ host.deletes) # Cardinality(GivenKeys)
        THEN ~created.ok /\ created.error = "Unsupported DateTimeFormat options provided"
        ELSE created.ok

-----------------------------------------------------------------------------
(* SpecCache: calls of the memoized factories, in any order                *)

Factories == {"Formatters", "FormatToParts", "RegexBuilder"}

MaxCalls == 3

MemoLocales == {"en-GB", "it"}

MemoRecords == { Opts("numeric", "short", "numeric", "short") }

\* the second record makes the emulation throw while RegexBuilder.create runs
BuilderOptions == MemoRecords \cup { Opts("2-digit", "numeric", "numeric", "none") }

MemoOptions == MemoRecords \cup { Fmt(DdMmmYyyy) }

\* the object a factory's body builds on its n-th call
Built(factory, class, key, n) == [id |-> n, of |-> factory, class |-> class, key |-> key]

\* a cache that runs the body on every call and keeps the last object
cachedLast(table, key, body) ==
    IF body.ok
    THEN [table |-> [k \in DOMAIN table \cup {key} |->
                        IF k = key THEN body.value ELSE table[k]],
          outcome |-> body, ran |-> TRUE]
    ELSE [table |-> table, outcome |-> body, ran |-> TRUE]

\* @cache on a static method: the table is keyed by the argument list of the
\* call; the body runs when the table has no entry, and what it returns is kept
cached(table, key, body) ==
    IF key \in DOMAIN table
    THEN [table |-> table, outcome |-> Return(table[key]), ran |-> FALSE]
    ELSE IF body.ok
         THEN [table |-> [k \in DOMAIN table \cup {key} |->
                             IF k = key THEN body.value ELSE table[k]],
               outcome |-> body, ran |-> TRUE]
         ELSE [table |-> table, outcome |-> body, ran |-> TRUE]

\* Formatters.create: a SimpleFormat for a format string, else an
\* ImprovedDateTimeFormat, whose constructor creates the delegate
Formatters_create(loc, o, env, n) ==
    IF IsString(o) THEN Return(Built("Formatters", "SimpleFormat", << loc, o >>, n))
    ELSE IF ImprovedDateTimeFormat_create(o, env).ok
         THEN Return(Built("Formatters", "ImprovedDateTimeFormat", << loc, o >>, n))
         ELSE ImprovedDateTimeFormat_create(o, env)

\* FormatToParts.create
FormatToParts_create(loc, o, n) ==
    Return(Built("FormatToParts", "FormatToParts", << loc, o >>, n))

\* RegexBuilder.create: the builder, unless formatting `now` threw
RegexBuilder_build(loc, o, nat, env, now, n) ==
    IF RegexBuilder_create(loc, o, nat, env, now).ok
    THEN Return(Built("RegexBuilder", "RegexBuilder", << loc, o, nat >>, n))
    ELSE RegexBuilder_create(loc, o, nat, env, now)

\* how often the body of factory returned an object for key
Derived(factory, key) ==
    IF << factory, key >> \in DOMAIN derivations THEN derivations[<< factory, key >>]
    ELSE 0

InitCache ==
    /\ pc = "start"
    /\ locale = "en-GB"
    /\ options = Opts("numeric", "short", "numeric", "short")
    /\ host \in Hosts
    /\ native = host.formatToParts
    /\ value = date(2019, 1, 25)
    /\ NoDates
    /\ NoParts
    /\ NoScan
    /\ created = None
    /\ cache = [f \in Factories |-> <<>>]
    /\ derivations = <<>>
    /\ returned = <<>>
    /\ NoSymbols
    /\ NoLater

\* one call of a decorated factory with the argument list key
Call(factory, key, body) ==
    /\ Len(returned) < MaxCalls
    /\ \E call \in { cached(cache[factory], key, body) } :
          /\ cache' = [cache EXCEPT ![factory] = call.table]
          /\ derivations' =
                IF call.ran /\ call.outcome.ok
                THEN [k \in DOMAIN derivations \cup {<< factory, key >>} |->
                         IF k = << factory, key >> THEN Derived(factory, key) + 1
                         ELSE derivations[k]]
                ELSE derivations
          /\ returned' = Append(returned,
                                [factory |-> factory, key |-> key, outcome |-> call.outcome])
    /\ pc' = "called"
    /\ UNCHANGED << inputs, dateVars, partVars, scanVars, created, symbolVars,
                    laterVars >>

CreateFormatter ==
    \E loc \in MemoLocales, o \in MemoOptions :
        Call("Formatters", << loc, o >>,
             Formatters_create(loc, o, host, Len(returned) + 1))

CreateFormatToParts ==
    \E loc \in MemoLocales, o \in MemoRecords :
        Call("FormatToParts", << loc, o >>, FormatToParts_create(loc, o, Len(returned) + 1))

CreateRegexBuilder ==
    \E loc \in MemoLocales, o \in BuilderOptions, nat \in BOOLEAN, now \in NowDates :
        /\ (nat => host.formatToParts)
        /\ Call("RegexBuilder", << loc, o, nat >>,
                RegexBuilder_build(loc, o, nat, host, now, Len(returned) + 1))

NextCache == CreateFormatter \/ CreateFormatToParts \/ CreateRegexBuilder

SpecCache == InitCache /\ [][NextCache]_vars

-----------------------------------------------------------------------------
(* Properties of SpecCache                                                 *)

\* calls i < j of the same factory with the same argument list
SameCall(i, j) ==
    /\ i < j
    /\ returned[i].factory = returned[j].factory
    /\ returned[i].key = returned[j].key

\* calls i < j of the same factory with the same locale and options
SameLocaleAndOptions(i, j) ==
    /\ i < j
    /\ returned[i].factory = returned[j].factory
    /\ returned[i].key[1] = returned[j].key[1]
    /\ returned[i].key[2] = returned[j].key[2]

\* no entry of a table is dropped or replaced by a step
EntriesKept ==
    \A f \in Factories : \A k \in DOMAIN cache[f] :
        k \in DOMAIN cache'[f] /\ cache'[f][k] = cache[f][k]

-----------------------------------------------------------------------------
(* Money: the host's number formatter and the currency data                *)

\* money(currency, amount)
money(c, a) == [currency |-> c, amount |-> a]

RECURSIVE Pow10(_)
Pow10(n) == IF n = 0 THEN 1 ELSE 10 * Pow10(n - 1)

\* a number with a finite decimal expansion: minor / 10^scale, negated if neg
Amount(neg, minor, scale) == [neg |-> neg, minor |-> minor, scale |-> scale]

RECURSIVE Canonical(_)
\* the same number without trailing zeros in its fraction, and without -0
Canonical(a) ==
    IF a.scale > 0 /\ a.minor % 10 = 0
    THEN Canonical(Amount(a.neg, a.minor \div 10, a.scale - 1))
    ELSE Amount(a.neg /\ a.minor # 0, a.minor, a.scale)

\* the number rounded to at most d fraction digits (maximumFractionDigits)
RoundTo(a, d) ==
    IF a.scale <= d THEN a
    ELSE Amount(a.neg,
                (a.minor + 5 * Pow10(a.scale - d - 1)) \div Pow10(a.scale - d), d)

GBP == <<"G", "B", "P">>

USD == <<"U", "S", "D">>

JPY == <<"J", "P", "Y">>

\* Object.keys(currencies)
IsoCodes == << GBP, JPY, USD >>

\* currencies[code].decimals
Decimals(iso) == IF iso = JPY THEN 0 ELSE 2

\* decimalsFor(code): two decimals for a code that is not listed
decimalsFor(iso) ==
    IF \E i \in 1..Len(IsoCodes) : IsoCodes[i] = iso THEN Decimals(iso) ELSE 2

\* currencies[code].symbols
ListedSymbols(iso) ==
    CASE iso = GBP -> << <<"£">> >>
      [] iso = USD -> << <<"$">>, <<"U", "S", "$">> >>
      [] OTHER -> << <<"¥">> >>

\* U+00A0, the space the host puts between a currency and a number
Nbsp == "~"

MoneyLocales == {"en-GB", "it"}

\* the locale the host uses when none is given
HostLocale(loc) == IF loc = "default" THEN "en-GB" ELSE loc

\* the currency as the host displays it
HostCurrency(loc, iso, display) ==
    IF display = "code" THEN iso
    ELSE CASE iso = GBP -> <<"£">>
           [] HostLocale(loc) = "it" -> iso
           [] iso = USD -> <<"U", "S", "$">>
           [] OTHER -> <<"J", "P", "¥">>

HostGroup(loc) == IF HostLocale(loc) = "it" THEN "." ELSE ","

HostDecimal(loc) == IF HostLocale(loc) = "it" THEN "," ELSE "."

RECURSIVE Grouped(_, _)
\* the integer digits in groups of three, the separator between them
Grouped(ds, sep) ==
    IF Len(ds) <= 3 THEN << Part("integer", ds) >>
    ELSE Grouped(SubSeq(ds, 1, Len(ds) - 3), sep)
         \o << Part("group", << sep >>), Part("integer", SubSeq(ds, Len(ds) - 2, Len(ds))) >>

\* the fraction digits of a canonical amount
FractionDigits(a) ==
    [i \in 1..a.scale |-> DigitChars[((a.minor \div Pow10(a.scale - i)) % 10) + 1]]

\* the parts of the number itself
HostNumber(loc, a) ==
    Grouped(ToDigits(a.minor \div Pow10(a.scale)), HostGroup(loc))
    \o (IF a.scale = 0 THEN <<>>
        ELSE << Part("decimal", << HostDecimal(loc) >>), Part("fraction", FractionDigits(a)) >>)

\* Intl.NumberFormat(locale, {style: 'currency', currency, currencyDisplay,
\* minimumFractionDigits: 0, maximumFractionDigits}).formatToParts(amount)
HostNumberParts(loc, iso, display, a) ==
    The({ (IF r.neg THEN << Part("minusSign", <<"-">>) >> ELSE <<>>)
          \o (IF HostLocale(loc) = "it"
              THEN HostNumber(loc, r) \o << Part("literal", << Nbsp >>), Part("currency", cur) >>
              ELSE << Part("currency", cur) >>
                   \o (IF cur[Len(cur)] \in {"$", "£", "¥"} THEN <<>>
                       ELSE << Part("literal", << Nbsp >>) >>)
                   \o HostNumber(loc, r))
          : r \in { Canonical(RoundTo(a, decimalsFor(iso))) },
            cur \in { HostCurrency(loc, iso, display) } })

\* Intl.NumberFormat.prototype.format
HostNumberFormat(loc, iso, display, a) == Join(PartValues(HostNumberParts(loc, iso, display, a)))

-----------------------------------------------------------------------------
(* CurrencySymbols                                                         *)

CurrencyDatum(n, iso) == [name |-> n, value |-> iso]

\* partsFrom(money, locale, currencyDisplay). Without a native formatToParts the
\* ponyfill asks FormatToParts.create for a parser, which asks
\* PartsFromFormat.examplePattern for CurrencySymbols.get(locale).pattern, which
\* asks symbolFor for every currency, which calls partsFrom again before any of
\* the three caches has an entry: the call never returns
Money_partsFrom(m, loc, display, env) ==
    IF env.formatToParts THEN Return(HostNumberParts(loc, m.currency, display, m.amount))
    ELSE Throw("Maximum call stack size exceeded")

\* symbolFor(locale, isoCurrency)
symbolFor(loc, iso, env) ==
    The({ IF ~ps.ok THEN ps
          ELSE IF \A i \in 1..Len(ps.value) : ps.value[i].type # "currency"
          THEN Throw("No currency found")
          ELSE Return(ps.value[CHOOSE i \in 1..Len(ps.value) :
                          /\ ps.value[i].type = "currency"
                          /\ \A j \in 1..(i - 1) : ps.value[j].type # "currency"].value)
          : ps \in { Money_partsFrom(money(iso, Amount(FALSE, 0, 0)), loc, "symbol", env) } })

\* CurrencySymbols.dataFor(locale, iso, currency), on a host with formatToParts
CurrencySymbols_dataFor(loc, iso, env) ==
    << CurrencyDatum(iso, iso), CurrencyDatum(symbolFor(loc, iso, env).value, iso) >>
    \o [i \in 1..Len(ListedSymbols(iso)) |-> CurrencyDatum(ListedSymbols(iso)[i], iso)]

\* CurrencySymbols.generateData(locale)
CurrencySymbols_generateData(loc, env) ==
    Join([i \in 1..Len(IsoCodes) |-> CurrencySymbols_dataFor(loc, IsoCodes[i], env)])

\* a create that puts the caller's entries before the generated ones
CurrencySymbols_createCallerFirst(loc, additionalData, env) ==
    IF env.formatToParts THEN Return(additionalData \o CurrencySymbols_generateData(loc, env))
    ELSE Throw("Maximum call stack size exceeded")

\* CurrencySymbols.create(locale, additionalData)
CurrencySymbols_create(loc, additionalData, env) ==
    IF env.formatToParts THEN Return(CurrencySymbols_generateData(loc, env) \o additionalData)
    ELSE Throw("Maximum call stack size exceeded")

\* a get that adds the caller's additionalData to an entry that exists
CurrencySymbols_getMerging(table, loc, additionalData, env) ==
    IF loc \in DOMAIN table
    THEN [cache |-> [table EXCEPT ![loc] = table[loc] \o additionalData],
          outcome |-> Return(table[loc] \o additionalData)]
    ELSE The({ [cache |-> IF made.ok
                          THEN [l \in DOMAIN table \cup {loc} |->
                                   IF l = loc THEN made.value ELSE table[l]]
                          ELSE table,
                outcome |-> made]
               : made \in { CurrencySymbols_create(loc, additionalData, env) } })

\* CurrencySymbols.get(locale, additionalData):
\* cache[locale] = cache[locale] || create(locale, additionalData)
CurrencySymbols_get(table, loc, additionalData, env) ==
    IF loc \in DOMAIN table
    THEN [cache |-> table, outcome |-> Return(table[loc])]
    ELSE The({ [cache |-> IF made.ok
                          THEN [l \in DOMAIN table \cup {loc} |->
                                   IF l = loc THEN made.value ELSE table[l]]
                          ELSE table,
                outcome |-> made]
               : made \in { CurrencySymbols_create(loc, additionalData, env) } })

\* CurrencySymbols.set(locale, months): cache[locale] = months
CurrencySymbols_set(table, loc, entry) ==
    [cache |-> [l \in DOMAIN table \cup {loc} |-> IF l = loc THEN entry ELSE table[l]],
     outcome |-> Return(entry)]

\* DatumLookup.parse of a currency lookup: the value of the entry found
CurrencySymbols_parse(data, name) ==
    The({ IF hit.ok THEN Return(hit.value.value) ELSE hit
          : hit \in { DatumLookup_parse(data, name) } })

-----------------------------------------------------------------------------
(* The money pattern: RegexBuilder, NumberFormatPartParser, moneyFrom       *)

\* U+202F, the narrow no-break space
NarrowNbsp == "_"

\* Spaces.codes
Spaces_codes == {" ", Nbsp, NarrowNbsp}

\* Spaces.handle(value) as the characters it puts into a class; '' puts none
Spaces_handle(v) ==
    IF v = <<>> THEN {}
    ELSE IF Len(v) = 1 /\ v[1] \in Spaces_codes THEN Spaces_codes
    ELSE Range(v)

RECURSIVE dedupeByType(_)
\* dedupe(by('type')): of neighbours of one type the first is kept
dedupeByType(ps) ==
    IF Len(ps) < 2 THEN ps
    ELSE IF ps[1].type = ps[2].type THEN dedupeByType(<< ps[1] >> \o SubSeq(ps, 3, Len(ps)))
    ELSE << ps[1] >> \o dedupeByType(Tail(ps))

\* one named group of the money pattern: how it repeats, the names of its
\* alternation, the characters of its class
MoneyGroup(n, k, ns, cs) == [name |-> n, kind |-> k, names |-> ns, chars |-> cs]

\* groups in which the fraction takes as many digits as the part has characters
MoneyPatternGroupCounting(part, group, names) ==
    CASE part.type = "currency" -> MoneyGroup("currency", "names", names, {})
      [] part.type = "decimal" -> MoneyGroup("decimal", "optional", <<>>, Range(part.value))
      [] part.type = "fraction" -> MoneyGroup("fraction", "digits", << part.value >>, {})
      [] part.type = "integer" ->
            MoneyGroup("integer-group", "grouped", <<>>, Spaces_handle(group))
      [] OTHER -> MoneyGroup(part.type, "optional", <<>>, Range(part.value) \cup {" "})

\* the group of one part, in RegexBuilder.buildFrom
MoneyPatternGroup(part, group, names) ==
    CASE part.type = "currency" -> MoneyGroup("currency", "names", names, {})
      [] part.type = "decimal" -> MoneyGroup("decimal", "optional", <<>>, Range(part.value))
      [] part.type = "fraction" -> MoneyGroup("fraction", "digits", <<>>, {})
      [] part.type = "integer" ->
            MoneyGroup("integer-group", "grouped", <<>>, Spaces_handle(group))
      [] OTHER -> MoneyGroup(part.type, "optional", <<>>, Range(part.value) \cup {" "})

\* RegexBuilder.buildFrom(parts, locale); names is
\* CurrencySymbols.get(locale).pattern
RegexBuilder_buildFrom(ps, names) ==
    The({ [i \in 1..Len(noGroups) |-> MoneyPatternGroup(noGroups[i], group, names)]
          : group \in { The({ IF groups = <<>> THEN <<>> ELSE groups[1].value
                              : groups \in { SelectSeq(ps, LAMBDA q : q.type = "group") } }) },
            noGroups \in { dedupeByType(SelectSeq(ps, LAMBDA q : q.type # "group")) } })

\* where a group of the money pattern may end when it starts at pos, best first
MoneyEnds(g, s, pos) ==
    CASE g.kind = "names" -> NameEnds(g.names, s, pos)
      [] g.kind = "optional" ->
            (IF pos <= Len(s) /\ s[pos] \in g.chars THEN << pos + 1 >> ELSE <<>>)
            \o << pos >>
      [] g.kind = "digits" ->
            The({ [k \in 1..(n + 1) |-> pos + n + 1 - k] : n \in { ClassRun(Digits, s, pos) } })
      [] OTHER ->   \* [\d<group>]*\d+
            The({ SelectSeq([k \in 1..n |-> pos + n + 1 - k], LAMBDA e : IsDigit(s[e - 1]))
                  : n \in { ClassRun(Digits \cup g.chars, s, pos) } })

\* (?=\s|$)
AtSpaceOrEnd(s, pos) == pos > Len(s) \/ s[pos] \in Spaces_codes

RECURSIVE MoneyMatchFrom(_, _, _, _)
RECURSIVE MoneyTryEach(_, _, _, _, _)
\* groups i.. of the money pattern against s from pos
MoneyMatchFrom(pat, i, s, pos) ==
    IF i > Len(pat)
    THEN IF AtSpaceOrEnd(s, pos)
         THEN [ok |-> TRUE, caps |-> <<>>, start |-> pos, end |-> pos]
         ELSE NoMatch
    ELSE MoneyTryEach(pat, i, s, pos, MoneyEnds(pat[i], s, pos))

MoneyTryEach(pat, i, s, pos, ends) ==
    IF ends = <<>> THEN NoMatch
    ELSE The({ IF rest.ok
               THEN [ok |-> TRUE,
                     caps |-> << [name |-> pat[i].name,
                                  value |-> SubSeq(s, pos, Head(ends) - 1)] >> \o rest.caps,
                     start |-> pos, end |-> rest.end]
               ELSE MoneyTryEach(pat, i, s, pos, Tail(ends))
               : rest \in { MoneyMatchFrom(pat, i + 1, s, Head(ends)) } })

RECURSIVE MoneyExec(_, _, _)
\* the leftmost match of the money pattern in s, from position pos on
MoneyExec(pat, s, pos) ==
    IF pos > Len(s) + 1 THEN NoMatch
    ELSE The({ IF m.ok THEN m ELSE MoneyExec(pat, s, pos + 1)
               : m \in { MoneyMatchFrom(pat, 1, s, pos) } })

RECURSIVE SplitRunsOfOneDigit(_, _, _, _)
\* a split whose expression is \d where the code has \d+: every digit is an
\* integer of its own
SplitRunsOfOneDigit(chars, s, pos, pending) ==
    IF pos > Len(s)
    THEN IF pending = <<>> THEN <<>> ELSE << Part("group", pending) >>
    ELSE IF s[pos] \in chars
    THEN (IF pending = <<>> THEN <<>> ELSE << Part("group", pending) >>)
         \o << Part("integer", << s[pos] >>) >>
         \o SplitRunsOfOneDigit(chars, s, pos + 1, <<>>)
    ELSE SplitRunsOfOneDigit(chars, s, pos + 1, Append(pending, s[pos]))

RECURSIVE SplitRuns(_, _, _, _)
\* IntegerGroupParser.parse: the runs the expression matches are integers,
\* the text between them is a group
SplitRuns(chars, s, pos, pending) ==
    IF pos > Len(s)
    THEN IF pending = <<>> THEN <<>> ELSE << Part("group", pending) >>
    ELSE IF s[pos] \in chars
    THEN The({ (IF pending = <<>> THEN <<>> ELSE << Part("group", pending) >>)
               \o << Part("integer", SubSeq(s, pos, pos + n - 1)) >>
               \o SplitRuns(chars, s, pos + n, <<>>)
               : n \in { ClassRun(chars, s, pos) } })
    ELSE SplitRuns(chars, s, pos + 1, Append(pending, s[pos]))

\* IntegerGroupParser.digits.parse(value)
IntegerGroupParser_digits(v) == SplitRuns(Digits, v, 1, <<>>)

\* IntegerGroupParser.integerFormat.parse(value)
IntegerGroupParser_integerFormat(v) == SplitRuns({"i"}, v, 1, <<>>)

\* NumberFormatPartParser.convert(matches)
NumberFormatPartParser_convert(caps) ==
    The({ Join([i \in 1..Len(kept) |->
                  IF kept[i].name = "integer-group"
                  THEN IntegerGroupParser_digits(kept[i].value)
                  ELSE << Part(kept[i].name, kept[i].value) >>])
          : kept \in { SelectSeq(caps, LAMBDA c : c.value # <<>>) } })

\* namedRegexParser(pattern).parse(value), mapped by convert
NumberFormatPartParser_parse(pat, v) ==
    The({ IF m.ok THEN Return(NumberFormatPartParser_convert(m.caps))
          ELSE [ok |-> FALSE, value |-> [regex |-> pat, text |-> v],
                error |-> "did not match"]
          : m \in { MoneyExec(pat, v, 1) } })

\* the place of the first point of a text, past its end if it has none
PointOf(t) ==
    IF \E i \in 1..Len(t) : t[i] = "."
    THEN CHOOSE i \in 1..Len(t) : t[i] = "." /\ \A j \in 1..(i - 1) : t[j] # "."
    ELSE Len(t) + 1

\* Number(text): the digits before and after the point; 0 for the empty text,
\* NaN for any other text that is no number
Number(t) ==
    The({ IF t = <<>> THEN Amount(FALSE, 0, 0)
          ELSE IF whole \o frac = <<>>
                  \/ \E i \in 1..Len(whole \o frac) : ~IsDigit((whole \o frac)[i])
          THEN Amount(FALSE, NaN, 0)
          ELSE Canonical(Amount(FALSE, DigitsValue(whole \o frac, 0), Len(frac)))
          : whole \in { SubSeq(t, 1, PointOf(t) - 1) },
            frac \in { SubSeq(t, PointOf(t) + 1, Len(t)) } })

\* exampleMoney: money('GBP', 111222.3333)
exampleMoney == money(GBP, Amount(FALSE, 1112223333, 4))

\* format(money, locale): the values of partsFrom(money, locale), joined
Money_format(m, loc, env) ==
    The({ IF ps.ok THEN Return(Join(PartValues(ps.value))) ELSE ps
          : ps \in { Money_partsFrom(m, loc, "code", env) } })

\* RegexBuilder.buildFrom(parts, locale) with the cache of CurrencySymbols:
\* the lookup of the locale is asked for when a part is a currency
RegexBuilder_buildFromParts(ps, table, loc, env) ==
    IF \A i \in 1..Len(ps) : ps[i].type # "currency"
    THEN [cache |-> table, outcome |-> Return(RegexBuilder_buildFrom(ps, <<>>))]
    ELSE The({ [cache |-> got.cache,
                outcome |-> IF got.outcome.ok
                            THEN Return(RegexBuilder_buildFrom(
                                          ps, DatumLookup_pattern(got.outcome.value)))
                            ELSE got.outcome]
               : got \in { CurrencySymbols_get(table, loc, <<>>, env) } })

\* RegexBuilder.buildPattern(locale)
RegexBuilder_buildPattern(table, loc, env) ==
    The({ IF ps.ok THEN RegexBuilder_buildFromParts(ps.value, table, loc, env)
          ELSE [cache |-> table, outcome |-> ps]
          : ps \in { Money_partsFrom(exampleMoney, loc, "code", env) } })

\* a text for Number that keeps the group separators
NumberTextWithGroups(ps) ==
    Join([i \in 1..Len(ps) |->
            CASE ps[i].type = "decimal" -> <<".">>
              [] ps[i].type \in {"integer", "fraction", "group"} -> ps[i].value
              [] OTHER -> <<>>])

\* the text Number is given: the integers and the fraction, '.' for the decimal
NumberText(ps) ==
    Join([i \in 1..Len(ps) |->
            CASE ps[i].type = "decimal" -> <<".">>
              [] ps[i].type \in {"integer", "fraction"} -> ps[i].value
              [] OTHER -> <<>>])

\* moneyFrom(parts, locale, options) without a strategy
moneyFrom(ps, table, loc, env) ==
    IF \A i \in 1..Len(ps) : ps[i].type # "currency"
    THEN [cache |-> table, outcome |-> Throw("No currency found")]
    ELSE The({ [cache |-> got.cache,
                outcome |->
                    IF ~got.outcome.ok THEN got.outcome
                    ELSE The({ IF iso.ok THEN Return(money(iso.value, Number(NumberText(ps))))
                               ELSE iso
                               : iso \in { CurrencySymbols_parse(
                                             got.outcome.value,
                                             SelectSeq(ps, LAMBDA q : q.type = "currency")[1].value) } })]
               : got \in { CurrencySymbols_get(table, loc, <<>>, env) } })

\* parse(value, locale): moneyFrom(parseToParts(value, locale), locale)
Money_parse(v, table, loc, env) ==
    The({ IF ~built.outcome.ok THEN built
          ELSE The({ IF ~ps.ok THEN [cache |-> built.cache, outcome |-> ps]
                     ELSE moneyFrom(ps.value, built.cache, loc, env)
                     : ps \in { NumberFormatPartParser_parse(built.outcome.value, v) } })
          : built \in { RegexBuilder_buildPattern(table, loc, env) } })

\* where the integer group of the format expression, (?:i.*i|i), may end when
\* it starts at pos, best first: at the last i, at an earlier i, after the
\* first i alone
IntegerFormatEnds(s, pos) ==
    IF pos > Len(s) \/ s[pos] # "i" THEN <<>>
    ELSE SelectSeq([k \in 1..(Len(s) - pos) |-> Len(s) + 2 - k], LAMBDA e : s[e - 1] = "i")
         \o << pos + 1 >>

\* the first of the ends after which a decimal [^f] and a fraction f+ follow
NumberFormatEnd(s, ends) ==
    The({ IF hits = <<>> THEN 0 ELSE hits[1]
          : hits \in { SelectSeq(ends, LAMBDA e :
                          e + 1 <= Len(s) /\ s[e] # "f" /\ s[e + 1] = "f") } })

RECURSIVE ScanMoneyFormat(_, _, _)
\* PartsFromFormat.format.parse(format): the expression
\* (?:(?<integer-group>(?:i.*i|i))(?<decimal>[^f])(?<fraction>f+)|(?<currency>C+))
\* is iterated over the format
ScanMoneyFormat(s, pos, pending) ==
    IF pos > Len(s)
    THEN IF pending = <<>> THEN <<>> ELSE << Part("literal", pending) >>
    ELSE The({
        IF e # 0
        THEN The({ (IF pending = <<>> THEN <<>> ELSE << Part("literal", pending) >>)
                   \o IntegerGroupParser_integerFormat(SubSeq(s, pos, e - 1))
                   \o << Part("decimal", << s[e] >>),
                         Part("fraction", SubSeq(s, e + 1, e + n)) >>
                   \o ScanMoneyFormat(s, e + 1 + n, <<>>)
                   : n \in { ClassRun({"f"}, s, e + 1) } })
        ELSE IF s[pos] = "C"
        THEN The({ (IF pending = <<>> THEN <<>> ELSE << Part("literal", pending) >>)
                   \o << Part("currency", SubSeq(s, pos, pos + n - 1)) >>
                   \o ScanMoneyFormat(s, pos + n, <<>>)
                   : n \in { ClassRun({"C"}, s, pos) } })
        ELSE ScanMoneyFormat(s, pos + 1, Append(pending, s[pos]))
        : e \in { NumberFormatEnd(s, IntegerFormatEnds(s, pos)) } })

\* PartsFromFormat.format.parse(format)
PartsFromFormat_parse(f) == ScanMoneyFormat(f, 1, <<>>)

\* RegexBuilder.buildFromOptions(locale, options): with a format the pattern
\* is built from the parts of the format and of no locale, else from the
\* locale's rendering of exampleMoney
RegexBuilder_buildFromOptions(table, loc, f, env) ==
    IF f # <<>>
    THEN RegexBuilder_buildFromParts(PartsFromFormat_parse(f), table, "default", env)
    ELSE RegexBuilder_buildPattern(table, loc, env)

-----------------------------------------------------------------------------
(* SpecSymbols: callers of CurrencySymbols.get, served in any order, and   *)
(* lookups in the table that results                                       *)

MaxCallers == 2

CNY == <<"C", "N", "Y">>

\* the additionalData a caller passes: nothing, a new name, a name the
\* generated entries have too
Synonyms ==
    { <<>>,
      << CurrencyDatum(<<"q", "u", "i", "d">>, GBP) >>,
      << CurrencyDatum(<<"¥">>, CNY) >> }

\* the names that are looked up
SymbolNames ==
    { GBP, JPY, <<"g", "b", "p">>, <<"£">>, <<"¥">>, <<"$">>, <<"U", "S", "$">>,
      <<"J", "P", "¥">>, <<"Q", "u", "i", "d">>, <<"e", "u", "r">> }

InitSymbols ==
    /\ pc = "start"
    /\ locale \in MoneyLocales
    /\ options = UndefinedOptions
    /\ host \in Hosts
    /\ native = host.formatToParts
    /\ value = date(2019, 1, 25)
    /\ NoDates
    /\ NoParts
    /\ NoScan
    /\ created = None
    /\ NoMemo
    /\ NoLater
    /\ symbols = <<>>
    /\ callers \in [1..MaxCallers -> [additionalData : Synonyms, outcome : {None}]]
    /\ looked = None

\* one caller's CurrencySymbols.get(locale, additionalData) runs; a call runs to
\* its end before another starts
Get(i) ==
    /\ callers[i].outcome = None
    /\ \E got \in { CurrencySymbols_get(symbols, locale, callers[i].additionalData, host) } :
          /\ symbols' = got.cache
          /\ callers' = [callers EXCEPT ![i].outcome = got.outcome]
    /\ pc' = IF \A j \in DOMAIN callers : j = i \/ callers[j].outcome # None
             THEN "settled" ELSE "racing"
    /\ UNCHANGED << inputs, dateVars, partVars, scanVars, created, memoVars, looked,
                    laterVars >>

\* CurrencySymbols.get(locale).parse(name), once every caller was answered
LookUp ==
    /\ pc \in {"settled", "looked"}
    /\ locale \in DOMAIN symbols
    /\ \E name \in SymbolNames :
          looked' = [name |-> name, outcome |-> CurrencySymbols_parse(symbols[locale], name)]
    /\ pc' = "looked"
    /\ UNCHANGED << inputs, dateVars, partVars, scanVars, created, memoVars,
                    symbols, callers, laterVars >>

NextSymbols == (\E i \in 1..MaxCallers : Get(i)) \/ LookUp

SpecSymbols == InitSymbols /\ [][NextSymbols]_vars

-----------------------------------------------------------------------------
(* Properties of SpecSymbols                                               *)

\* C12 -- once every racing CurrencySymbols.get of a locale has finished, the
\* cache holds one entry for the locale, every caller was answered with that
\* entry, and the entry is the table any of the callers would have created: it
\* does not depend on which caller was served first
C12_ConvergesWhoeverIsFirst ==
    (pc = "settled" /\ host.formatToParts) =>
        /\ DOMAIN symbols = { locale }
        /\ \A i \in DOMAIN callers :
              /\ callers[i].outcome = Return(symbols[locale])
              /\ symbols[locale] =
                    CurrencySymbols_create(locale, callers[i].additionalData, host).value

\* the entries of table t that have the name n after case normalization
Named(t, n) == SelectSeq(t, LAMBDA e : toLocaleLowerCase(e.name) = toLocaleLowerCase(n))

\* the entries the lookup of a locale must have for the currency iso
Expected(loc, iso) ==
    { CurrencyDatum(iso, iso), CurrencyDatum(HostCurrency(loc, iso, "symbol"), iso) }
    \cup { CurrencyDatum(ListedSymbols(iso)[i], iso) : i \in 1..Len(ListedSymbols(iso)) }

\* the table t has the generated entries of every currency
HasGenerated(t, loc) ==
    \A c \in 1..Len(IsoCodes) : \A e \in Expected(loc, IsoCodes[c]) :
        \E i \in 1..Len(t) : t[i] = e

-----------------------------------------------------------------------------
(* SpecLookup: a name is handed to the month or weekday lookup of a locale *)

\* the month and weekday names of every locale, as written and in capitals,
\* a number and a word that is no name
LookupNames ==
    UNION { UNION { { t[i].name, toLocaleUpperCase(t[i].name) } : i \in 1..Len(t) } :
            t \in { Months_get(loc) \o Weekdays_get(loc) : loc \in Locales } }
    \cup { <<"1", "1">>, <<"n", "o">> }

\* the table of the locale's months or weekdays lookup
TableOf(kind, loc) == IF kind = "months" THEN Months_get(loc) ELSE Weekdays_get(loc)

InitLookup ==
    /\ pc = "start"
    /\ locale \in Locales
    /\ options = UndefinedOptions
    /\ native = FALSE
    /\ host \in Hosts
    /\ value = date(2019, 1, 25)
    /\ NoDates
    /\ NoParts
    /\ NoScan
    /\ created = None
    /\ NoMemo
    /\ NoSymbols
    /\ NoLater

\* lookup.parse(name) on the table of the lookup, and
\* FormatToParts.parsable(lookup, name)
ParseName ==
    /\ pc = "start"
    /\ \E kind \in {"months", "weekdays"}, name \in LookupNames :
          /\ asked' = [kind |-> kind, name |-> name]
          /\ answered' = [parse |-> DatumLookup_parse(TableOf(kind, locale), name),
                          parsable |-> parsable(Lookup(kind, TableOf(kind, locale)), name)]
    /\ pc' = "asked"
    /\ UNCHANGED << inputs, dateVars, partVars, scanVars, created, memoVars, symbolVars,
                    templateVars, takeVars >>

NextLookup == ParseName

SpecLookup == InitLookup /\ [][NextLookup]_vars

-----------------------------------------------------------------------------
(* Properties of SpecLookup                                                *)

\* the name is written in digits
IsNumber(name) == \A i \in 1..Len(name) : IsDigit(name[i])

\* C19 -- the parse of a name that, case aside, is no entry of the locale's
\* table throws NotFound and returns nothing, so a month name of one locale
\* that another locale's table lacks fails there; a name of the table is
\* answered with its entry; parsable is false exactly when the lookup's parse
\* fails (the months lookup also parses a number)
C19_NotFoundWhenAbsent ==
    pc = "asked" =>
        \E table \in { TableOf(asked.kind, locale) } :
            /\ IF InTable(table, asked.name)
               THEN /\ answered.parse.ok
                    /\ toLocaleLowerCase(answered.parse.value.name)
                         = toLocaleLowerCase(asked.name)
               ELSE /\ ~answered.parse.ok
                    /\ answered.parse.error = "NotFound"
            /\ answered.parsable
                 = (InTable(table, asked.name)
                      \/ (asked.kind = "months" /\ IsNumber(asked.name)))

\* "gennaio", a month of the Italian table, was asked of the British months
\* lookup: NotFound, not parsable
C19_ItalianMonthAskedInEnglish ==
    /\ pc = "asked"
    /\ locale = "en-GB"
    /\ asked = [kind |-> "months", name |-> <<"g","e","n","n","a","i","o">>]
    /\ InTable(Months_get("it"), asked.name)
    /\ ~answered.parse.ok
    /\ answered.parse.error = "NotFound"
    /\ ~answered.parsable

-----------------------------------------------------------------------------
(* SpecTemplate: a date template is read by partsFrom                      *)

MaxTemplate == 5

\* the characters of the templates: the four sentinels, a blank and a dash
TemplateChars == Sentinels \cup {" ", "-"}

\* every template of up to MaxTemplate characters
Templates == UNION { [1..n -> TemplateChars] : n \in 0..MaxTemplate }

InitTemplate ==
    /\ pc = "start"
    /\ locale = "en-GB"
    /\ options = UndefinedOptions
    /\ native = FALSE
    /\ host = [formatToParts |-> TRUE, deletes |-> {}]
    /\ value = date(2019, 1, 25)
    /\ NoDates
    /\ NoParts
    /\ NoScan
    /\ created = None
    /\ NoMemo
    /\ NoSymbols
    /\ NoLookups
    /\ NoTake
    /\ template \in Templates
    /\ layout = None

\* partsFrom(template)
ReadTemplate ==
    /\ pc = "start"
    /\ layout' = partsFrom(template)
    /\ pc' = "read"
    /\ UNCHANGED << inputs, dateVars, partVars, scanVars, created, memoVars, symbolVars,
                    lookupVars, takeVars, template >>

NextTemplate == ReadTemplate

SpecTemplate == InitTemplate /\ [][NextTemplate]_vars

-----------------------------------------------------------------------------
(* Properties of SpecTemplate                                              *)

\* the run a part of the layout was read from
RunOf(part) ==
    CASE part.type = "literal" -> part.value
      [] part.type = "year" /\ part.value = "numeric" -> <<"y","y","y","y">>
      [] part.type = "year" /\ part.value = "2-digit" -> <<"y","y">>
      [] part.type = "month" /\ part.value = "long" -> <<"M","M","M","M">>
      [] part.type = "month" /\ part.value = "short" -> <<"M","M","M">>
      [] part.type = "month" /\ part.value = "2-digit" -> <<"M","M">>
      [] part.type = "month" /\ part.value = "numeric" -> <<"M">>
      [] part.type = "day" /\ part.value = "2-digit" -> <<"d","d">>
      [] part.type = "day" /\ part.value = "numeric" -> <<"d">>
      [] part.type = "weekday" /\ part.value = "long" -> <<"E","E","E","E">>
      [] part.type = "weekday" /\ part.value = "short" -> <<"E","E","E">>
      [] OTHER -> <<"?">>

\* the run lengths each sentinel may have
LegalLengths(c) ==
    CASE c = "y" -> {2, 4}
      [] c = "M" -> {1, 2, 3, 4}
      [] c = "d" -> {1, 2}
      [] c = "E" -> {3, 4}

\* characters i..j of the template are a whole run of one sentinel
IsRun(t, i, j) ==
    /\ t[i] \in Sentinels
    /\ \A k \in i..j : t[k] = t[i]
    /\ (i = 1 \/ t[i - 1] # t[i])
    /\ (j = Len(t) \/ t[j + 1] # t[i])

\* some run of the template has a length its sentinel does not allow
HasIllegalRun(t) ==
    \E i \in 1..Len(t) : \E j \in i..Len(t) :
        IsRun(t, i, j) /\ (j - i + 1) \notin LegalLengths(t[i])

\* C15 -- yyyy and yy read as a numeric and a 2-digit year, MMMM, MMM, MM and M
\* as a long, short, 2-digit and numeric month, dd and d as a 2-digit and a
\* numeric day, EEEE and EEE as a long and a short weekday; a run of any other
\* length is rejected with 'Illegal Argument'; the text between the runs
\* becomes literal parts, and the parts come in the order of the template
C15_RunLengthIsWidth ==
    pc = "read" =>
        IF HasIllegalRun(template)
        THEN ~layout.ok /\ layout.error = "Illegal Argument"
        ELSE /\ layout.ok
             /\ Join([i \in 1..Len(layout.value) |-> RunOf(layout.value[i])]) = template
             /\ \A i \in 1..Len(layout.value) :
                   /\ layout.value[i].type = "literal" =>
                         /\ layout.value[i].value # <<>>
                         /\ Range(layout.value[i].value) \cap Sentinels = {}
                   /\ i < Len(layout.value) =>
                         layout.value[i].type # layout.value[i + 1].type

\* the template "d-MMM" was read as a numeric day, a literal dash and a short
\* month
C15_DayDashShortMonth ==
    /\ pc = "read"
    /\ template = <<"d", "-", "M", "M", "M">>
    /\ layout = Return(<< Part("day", "numeric"), Part("literal", <<"-">>),
                          Part("month", "short") >>)

-----------------------------------------------------------------------------
(* SpecTake: take(n) over a source, element by element                     *)

MaxSource == 5

MaxTake == 4

\* the sources: [0, 1, 2, ...] of every length up to MaxSource, and
\* repeat(() => { called = true; throw new Error() })
Sources ==
    { [items |-> [i \in 1..n |-> i - 1], throws |-> FALSE] : n \in 0..MaxSource }
    \cup { [items |-> <<>>, throws |-> TRUE] }

\* the arguments of take, in halves: -1, -0.5, 0, 0.5, ... MaxTake + 0.5
Counts == (-2)..(2 * MaxTake + 1)

\* a take that goes on until its count is used up to the last half
TakeTransducer_exhaustedAtZero(c) == c <= 0

\* this.count < 1
TakeTransducer_exhausted(c) == c < 2

InitTake ==
    /\ pc = "start"
    /\ locale = "en-GB"
    /\ options = UndefinedOptions
    /\ native = FALSE
    /\ host = [formatToParts |-> TRUE, deletes |-> {}]
    /\ value = date(2019, 1, 25)
    /\ NoDates
    /\ NoParts
    /\ NoScan
    /\ created = None
    /\ NoMemo
    /\ NoSymbols
    /\ NoLookups
    /\ NoTemplates
    /\ source \in Sources
    /\ requested \in Counts
    /\ count = requested
    /\ pulled = 0
    /\ taken = <<>>

\* take(n).sync(source) is started: nothing is read if the count is below 1
Begin ==
    /\ pc = "start"
    /\ pc' = IF TakeTransducer_exhausted(count) THEN "done" ELSE "taking"
    /\ UNCHANGED << inputs, dateVars, partVars, scanVars, created, memoVars, symbolVars,
                    lookupVars, templateVars, takeVars >>

\* one turn of the loop: the source is asked for an element, the element is
\* yielded, the count goes down by one and the loop ends when it is below 1
TakeOne ==
    /\ pc = "taking"
    /\ IF source.throws
       THEN /\ pulled' = pulled + 1
            /\ pc' = "threw"
            /\ UNCHANGED << count, taken >>
       ELSE IF Len(taken) = Len(source.items)
       THEN /\ pc' = "done"
            /\ UNCHANGED << count, pulled, taken >>
       ELSE /\ pulled' = pulled + 1
            /\ taken' = Append(taken, source.items[pulled + 1])
            /\ count' = count - 2
            /\ pc' = IF TakeTransducer_exhausted(count - 2) THEN "done" ELSE "taking"
    /\ UNCHANGED << inputs, dateVars, partVars, scanVars, created, memoVars, symbolVars,
                    lookupVars, templateVars, source, requested >>

NextTake == Begin \/ TakeOne

SpecTake == InitTake /\ [][NextTake]_vars

-----------------------------------------------------------------------------
(* Properties of SpecTake                                                  *)

\* max(0, floor(n)) of a count in halves
WholeCount(h) == IF h \div 2 > 0 THEN h \div 2 ELSE 0

-----------------------------------------------------------------------------
(* SpecMoney: a money is formatted and the string is parsed back           *)

\* 0, 5, 0.5, 12.34, 1234, 111222.33, 1234567.8, -5 and -1234.5
MoneyAmounts ==
    { Amount(FALSE, 0, 0), Amount(FALSE, 5, 0), Amount(FALSE, 5, 1),
      Amount(FALSE, 1234, 2), Amount(FALSE, 1234, 0), Amount(FALSE, 11122233, 2),
      Amount(FALSE, 12345678, 1), Amount(TRUE, 5, 0), Amount(TRUE, 12345, 1) }

\* the monies whose amount has no more fraction digits than the currency allows
Monies ==
    { m \in { money(IsoCodes[i], a) : i \in 1..Len(IsoCodes), a \in MoneyAmounts } :
        m.amount.scale <= decimalsFor(m.currency) }

InitMoney ==
    /\ pc = "start"
    /\ locale \in MoneyLocales
    /\ options = UndefinedOptions
    /\ native = FALSE
    /\ host \in Hosts
    /\ value \in Monies
    /\ NoDates
    /\ NoParts
    /\ NoScan
    /\ created = None
    /\ NoRest

\* format(value, locale); a call that throws leaves its error as the outcome
FormatMoney ==
    /\ pc = "start"
    /\ \E formattedValue \in { Money_format(value, locale, host) } :
          IF formattedValue.ok
          THEN text' = formattedValue.value /\ pc' = "formatted" /\ UNCHANGED parsed
          ELSE parsed' = formattedValue /\ pc' = "failed" /\ UNCHANGED text
    /\ UNCHANGED << inputs, previous, parsers, consulted, partVars, scanVars, created,
                    restVars >>

\* parse(text, locale); CurrencySymbols.get fills the cache of the lookups
ParseMoney ==
    /\ pc = "formatted"
    /\ \E result \in { Money_parse(text, symbols, locale, host) } :
          /\ parsed' = result.outcome
          /\ symbols' = result.cache
    /\ pc' = "parsed"
    /\ UNCHANGED << inputs, text, previous, parsers, consulted, partVars, scanVars,
                    created, memoVars, callers, looked, laterVars >>

NextMoney == FormatMoney \/ ParseMoney

SpecMoney == InitMoney /\ [][NextMoney]_vars

-----------------------------------------------------------------------------
(* Properties of SpecMoney                                                 *)

\* C14 -- money round trip: for a money whose amount has no more fraction
\* digits than its currency allows, parse(format(money, locale), locale)
\* returns the same currency code and the same amount
C14_MoneyRoundTrip ==
    pc \in {"parsed", "failed"} => parsed = Return(value)

-----------------------------------------------------------------------------
(* SpecFormat: the matcher of a money format template                      *)

MaxFormat == 5

\* the characters of the money templates: the three format characters, a
\* point, a comma and a blank
FormatChars == {"C", "i", "f", ".", ",", " "}

\* every money template of one to MaxFormat characters
Formats == UNION { [1..n -> FormatChars] : n \in 1..MaxFormat }

InitFormat ==
    /\ pc = "start"
    /\ locale \in MoneyLocales
    /\ options = UndefinedOptions
    /\ native = FALSE
    /\ host = [formatToParts |-> TRUE, deletes |-> {}]
    /\ value = exampleMoney
    /\ NoDates
    /\ NoParts
    /\ NoScan
    /\ created = None
    /\ NoMemo
    /\ NoSymbols
    /\ NoLookups
    /\ NoTake
    /\ template \in Formats
    /\ layout = None

\* RegexBuilder.buildFromOptions(locale, {format: template})
BuildMatcher ==
    /\ pc = "start"
    /\ \E built \in { RegexBuilder_buildFromOptions(symbols, locale, template, host) } :
          /\ layout' = built.outcome
          /\ symbols' = built.cache
    /\ pc' = "built"
    /\ UNCHANGED << inputs, dateVars, partVars, scanVars, created, memoVars, callers,
                    looked, lookupVars, takeVars, template >>

NextFormat == BuildMatcher

SpecFormat == InitFormat /\ [][NextFormat]_vars

-----------------------------------------------------------------------------
(* Properties of SpecFormat                                                *)

RECURSIVE Squeeze(_)
\* the template with every run of i, of f and of C written once
Squeeze(t) ==
    IF Len(t) < 2 THEN t
    ELSE IF t[1] = t[2] /\ t[1] \in {"i", "f", "C"} THEN Squeeze(Tail(t))
    ELSE << t[1] >> \o Squeeze(Tail(t))

\* the matcher of the template with its runs written once
SqueezedMatcher ==
    RegexBuilder_buildFromOptions(<<>>, locale, Squeeze(template), host).outcome

FractionSeparated(t) ==
    \A k \in 2..Len(t) : t[k] = "f" => t[k - 1] \notin {"i", "C"}

-----------------------------------------------------------------------------
(* The general patterns of the fields                                      *)

\* the group, alone, matches the whole of s
GroupAccepts(g, s) ==
    \E ends \in { Candidates(g, s, 1) } :
        \E i \in 1..Len(ends) : ends[i] = Len(s) + 1

AllDigits(s) == \A i \in 1..Len(s) : IsDigit(s[i])

NamesOf(data) == { data[i].name : i \in 1..Len(data) }

LowerNamesOf(data) == { toLocaleLowerCase(n) : n \in NamesOf(data) }

\* runs of one to five digits, every month and weekday name of the locale as
\* the host renders it and in lower case, and a token that is no name
FieldTokens(loc) ==
    { <<"7">>, <<"1", "2">>, <<"1", "2", "3">>, <<"2", "0", "1", "9">>,
      <<"2", "0", "1", "9", "1">>, <<"n", "o">> }
    \cup NamesOf(Months_get(loc)) \cup LowerNamesOf(Months_get(loc))
    \cup NamesOf(Weekdays_get(loc)) \cup LowerNamesOf(Weekdays_get(loc))

\* what a field group accepts: four digits; one or two digits; one or two
\* digits or one of monthNames; one of weekdayNames
GeneralField(g, s, monthNames, weekdayNames) ==
    CASE g.kind = "year" -> GroupAccepts(g, s) <=> (Len(s) = 4 /\ AllDigits(s))
      [] g.kind = "day" -> GroupAccepts(g, s) <=> (Len(s) \in 1..2 /\ AllDigits(s))
      [] g.kind = "month" ->
            GroupAccepts(g, s) <=> ((Len(s) \in 1..2 /\ AllDigits(s)) \/ s \in monthNames)
      [] g.kind = "weekday" -> GroupAccepts(g, s) <=> s \in weekdayNames
      [] OTHER -> TRUE

GeneralPattern(loc, pat, monthNames, weekdayNames) ==
    \A i \in 1..Len(pat) : \A s \in FieldTokens(loc) :
        GeneralField(pat[i], s, monthNames, weekdayNames)

\* the fields of a sequence of groups or of parts, in order
FieldsOf(kinds) == SelectSeq(kinds, LAMBDA k : k \in {"year", "month", "day", "weekday"})

\* the groups of the pattern are the fields of the schema, in the schema's order
InSchemaOrder(pat, ps) ==
    /\ Len(pat) = Len(ps)
    /\ FieldsOf([i \in 1..Len(pat) |-> pat[i].kind])
         = FieldsOf([i \in 1..Len(ps) |-> ps[i].type])
    /\ \A i \in 1..Len(pat) :
          pat[i].kind = IF ps[i].type \in {"year", "month", "day", "weekday"}
                        THEN ps[i].type ELSE "literal"

\* the pattern of the emulation engine was derived on the way to the parser
Emulated == ~IsString(options) /\ (~native \/ ~host.formatToParts)

\* the parser's pattern has the general fields with every name of the locale,
\* in lower case, in the order of some schema of the key
ParserPatternGeneral ==
    \A k \in 1..Len(parsers) :
        /\ GeneralPattern(locale, parsers[k], LowerNamesOf(Months_get(locale)),
                          LowerNamesOf(Weekdays_get(locale)))
        /\ pc = "parsed" =>
              \E now \in NowDates :
                 \E schemaParts \in { RegexBuilder_create(locale, options, native, host, now) } :
                    schemaParts.ok /\ InSchemaOrder(parsers[k], schemaParts.value)

\* C21 as stated: in every generated date pattern, the parser's and the
\* emulation engine's, the year group matches exactly four digits, the day
\* group one or two digits, the month group one or two digits or any month
\* name of the locale, the weekday group any weekday name of the locale,
\* whatever widths the options requested
C21_EveryPatternEveryName ==
    (pc = "parsed" /\ parsers # <<>>) =>
        /\ ParserPatternGeneral
        /\ Emulated =>
              \E learnt \in { actualNamesPattern(locale, options) } :
                 learnt.ok /\ GeneralPattern(locale, learnt.value,
                                             NamesOf(Months_get(locale)),
                                             NamesOf(Weekdays_get(locale)))

\* C21: the parser's pattern has a year group of exactly four digits, a day
\* group of one or two digits, a month group of one or two digits or any month
\* name of the locale and a weekday group of any weekday name of the locale,
\* whatever widths the options requested, in the order of the schema's fields;
\* the emulation engine's pattern has the same year and day groups, and its
\* month and weekday groups know the names in the width the options requested
C21_GeneralFields ==
    (pc \in {"parsed", "parsedDefault"} /\ parsers # <<>>) =>
        /\ ParserPatternGeneral
        /\ (pc = "parsed" /\ Emulated) =>
              \E learnt \in { actualNamesPattern(locale, options) } :
                 learnt.ok /\ GeneralPattern(locale, learnt.value,
                                             NamesOf(Months_dataFor(locale, options)),
                                             NamesOf(Weekdays_dataFor(locale, options)))

\* a parser was built for options that ask for short names, on a host that
\* needs the emulation engine; its pattern has a group for each of the fields
C21_ShortWidthsGeneralised ==
    /\ pc = "parsed"
    /\ parsers # <<>>
    /\ Emulated
    /\ options.month = "short"
    /\ options.weekday = "short"
    /\ {"year", "month", "day", "weekday"}
         \subseteq { parsers[1][i].kind : i \in 1..Len(parsers[1]) }

-----------------------------------------------------------------------------
(* SpecRuns: an integer run is split into its integers and its groups      *)

MaxRun == 5

\* digits, and the separators the locales put between them
RunChars == {"1", "2", ",", " "}

RECURSIVE StringsOver(_, _)
\* the strings of up to n characters of chars
StringsOver(chars, n) ==
    IF n = 0 THEN { <<>> }
    ELSE The({ shorter \cup { Append(s, c) : s \in shorter, c \in chars }
               : shorter \in { StringsOver(chars, n - 1) } })

IntegerRuns == StringsOver(RunChars, MaxRun)

\* the decimal separator a match may have captured, or nothing
DecimalCaptures == { <<>>, <<".">> }

InitRuns ==
    /\ pc = "start"
    /\ locale = "en-GB"
    /\ options = UndefinedOptions
    /\ native = FALSE
    /\ host = [formatToParts |-> TRUE, deletes |-> {}]
    /\ value = exampleMoney
    /\ text \in IntegerRuns
    /\ parsed = None
    /\ previous = None
    /\ parsers = <<>>
    /\ consulted = <<>>
    /\ NoParts
    /\ NoScan
    /\ created = None
    /\ NoRest

\* IntegerGroupParser.digits.parse(text)
SplitDigits ==
    /\ pc = "start"
    /\ parts' = IntegerGroupParser_digits(text)
    /\ pc' = "split"
    /\ UNCHANGED << inputs, dateVars, raw, schema, scanVars, created, restVars >>

\* NumberFormatPartParser.convert(matches): text is what the integer-group
\* captured, followed by a decimal and a fraction group
Convert ==
    /\ pc = "start"
    /\ \E decimal \in DecimalCaptures :
          /\ raw' = << Part("integer-group", text), Part("decimal", decimal),
                       Part("fraction", <<"5">>) >>
          /\ parts' = NumberFormatPartParser_convert(
                        << [name |-> "integer-group", value |-> text],
                           [name |-> "decimal", value |-> decimal],
                           [name |-> "fraction", value |-> <<"5">>] >>)
    /\ pc' = "converted"
    /\ UNCHANGED << inputs, dateVars, schema, scanVars, created, restVars >>

NextRuns == SplitDigits \/ Convert

SpecRuns == InitRuns /\ [][NextRuns]_vars

\* the parts that came out of the integer run: those before the decimal and
\* the fraction
RunParts ==
    SelectSeq(parts, LAMBDA p : p.type \in {"integer", "group"})

\* ps are the maximal digit runs of s, typed integer, and the runs between
\* them, typed group, in order
IsSplitOf(ps, s) ==
    /\ Join([i \in 1..Len(ps) |-> ps[i].value]) = s
    /\ \A i \in 1..Len(ps) :
          /\ ps[i].value # <<>>
          /\ ps[i].type = "integer" => AllDigits(ps[i].value)
          /\ ps[i].type = "group" => \A k \in 1..Len(ps[i].value) : ~IsDigit(ps[i].value[k])
    /\ \A i \in 1..(Len(ps) - 1) : ps[i].type # ps[i + 1].type

\* C22: the parts the integer-group sub-parser makes of an integer run are its
\* maximal digit runs, typed integer, and the runs between them, typed group;
\* their values concatenated are the run, and no two adjacent parts have the
\* same type
C22_MaximalRuns ==
    pc \in {"split", "converted"} => IsSplitOf(RunParts, text)

\* a run of two separated integers was split into integer, group, integer
C22_TwoIntegersOneGroup ==
    /\ pc = "split"
    /\ Len(text) = MaxRun
    /\ [i \in 1..Len(parts) |-> parts[i].type] = << "integer", "group", "integer" >>
    /\ Len(parts[1].value) > 1

-----------------------------------------------------------------------------
(* SpecEntries: CurrencySymbols.get and CurrencySymbols.set, called for    *)
(* several locales in any order                                            *)

\* the lookups a caller hands to set: one without entries, one with a single
\* entry, one with an entry for a name the generated data has too
GivenLookups ==
    { <<>>,
      << CurrencyDatum(<<"q", "u", "i", "d">>, GBP) >>,
      << CurrencyDatum(<<"¥">>, CNY), CurrencyDatum(<<"$">>, USD) >> }

InitEntries ==
    /\ pc = "start"
    /\ locale = "en-GB"
    /\ options = UndefinedOptions
    /\ native = TRUE
    /\ host = [formatToParts |-> TRUE, deletes |-> {}]
    /\ value = exampleMoney
    /\ NoDates
    /\ NoParts
    /\ NoScan
    /\ created = None
    /\ NoRest

\* CurrencySymbols.get(loc, additionalData)
GetEntry ==
    /\ \E loc \in MoneyLocales, additionalData \in Synonyms :
       \E got \in { CurrencySymbols_get(symbols, loc, additionalData, host) } :
          /\ symbols' = got.cache
          /\ looked' = [op |-> "get", locale |-> loc, given |-> additionalData,
                        outcome |-> got.outcome]
    /\ pc' = "called"
    /\ UNCHANGED << inputs, dateVars, partVars, scanVars, created, memoVars, callers,
                    laterVars >>

\* CurrencySymbols.set(loc, entry)
SetEntry ==
    /\ \E loc \in MoneyLocales, entry \in GivenLookups :
       \E put \in { CurrencySymbols_set(symbols, loc, entry) } :
          /\ symbols' = put.cache
          /\ looked' = [op |-> "set", locale |-> loc, given |-> entry,
                        outcome |-> put.outcome]
    /\ pc' = "called"
    /\ UNCHANGED << inputs, dateVars, partVars, scanVars, created, memoVars, callers,
                    laterVars >>

NextEntries == GetEntry \/ SetEntry

SpecEntries == InitEntries /\ [][NextEntries]_vars

\* the entry of a locale, None where the cache has none
EntryOf(table, loc) == IF loc \in DOMAIN table THEN Return(table[loc]) ELSE None

\* C23: a get for a locale that has an entry returns the entry and leaves the
\* cache as it was, whatever additionalData it was given; a set for a locale
\* makes what it was given the entry; no call changes the entry of a locale
\* it was not made for, and only a set changes an entry that exists
C23_EntriesFrame ==
    [][ /\ (looked'.op = "get" /\ looked'.locale \in DOMAIN symbols) =>
              /\ looked'.outcome = Return(symbols[looked'.locale])
              /\ symbols' = symbols
        /\ looked'.op = "set" =>
              /\ EntryOf(symbols', looked'.locale) = Return(looked'.given)
              /\ looked'.outcome = Return(looked'.given)
        /\ \A loc \in MoneyLocales :
              (loc # looked'.locale \/ (looked'.op = "get" /\ loc \in DOMAIN symbols)) =>
                  EntryOf(symbols', loc) = EntryOf(symbols, loc)
      ]_vars

\* a get with additionalData was answered with the lookup that was set for the
\* locale, which the generated data could not have made, while the other
\* locale has an entry of its own
C23_GetAfterSet ==
    /\ pc = "called"
    /\ looked.op = "get"
    /\ looked.given # <<>>
    /\ looked.outcome = Return(<< CurrencyDatum(<<"q", "u", "i", "d">>, GBP) >>)
    /\ \E loc \in MoneyLocales :
          /\ loc # looked.locale
          /\ loc \in DOMAIN symbols
          /\ symbols[loc] # <<>>

-----------------------------------------------------------------------------
(* SpecWeekday: a date is written out with the name of any weekday, the    *)
(* text is parsed and scanned                                              *)

\* the dates that are written out: a Tuesday, a Friday, a Sunday, a Thursday
WrittenDates ==
    { date(2018, 12, 18), date(2019, 1, 25), date(2019, 5, 12), date(2001, 6, 28) }

\* the option sets that ask for a weekday and a numeric year
WeekdayOptionSets ==
    { o \in RecordOptionSets : HasKey(o, "weekday") /\ o.year = "numeric" }

NoWeekday == <<"n", "o", "d", "a", "y">>

\* what stands where the weekday belongs: any weekday name of the locale, long
\* or short, or a word that is no weekday
WeekdayTokens(loc) == NamesOf(Weekdays_get(loc)) \cup { NoWeekday }

InitWeekday ==
    /\ pc = "start"
    /\ locale \in Locales
    /\ options \in WeekdayOptionSets
    /\ native \in BOOLEAN
    /\ host \in Hosts
    /\ (~native => host.formatToParts)
    /\ value \in WrittenDates
    /\ NoDates
    /\ NoParts
    /\ NoScan
    /\ created = None
    /\ NoRest

\* someone writes the date the way the locale does, with a weekday of their
\* own choosing
WriteDate ==
    /\ pc = "start"
    /\ \E token \in WeekdayTokens(locale) :
       \E ps \in { HostFormatToParts(locale, options, value) } :
          /\ raw' = [i \in 1..Len(ps) |->
                        IF ps[i].type = "weekday" THEN Part("weekday", token) ELSE ps[i]]
          /\ text' = Join(PartValues(raw'))
    /\ pc' = "formatted"
    /\ UNCHANGED << inputs, parsed, previous, parsers, consulted, parts, schema,
                    scanVars, created, restVars >>

\* RegexParser.parseAll(text) of the parser that was built
ScanWritten ==
    /\ pc = "parsed"
    /\ parsers # <<>>
    /\ found' = RegexParser_parseAll(locale, parsers[1], text)
    /\ pc' = "scanned"
    /\ UNCHANGED << inputs, dateVars, partVars, document, created, restVars >>

NextWeekday == WriteDate \/ Parse \/ ScanWritten

SpecWeekday == InitWeekday /\ [][NextWeekday]_vars

\* the weekday that was written
WrittenWeekday == SelectSeq(raw, LAMBDA p : p.type = "weekday")[1].value

\* the weekday that was written is not the weekday of the date
Mismatched ==
    /\ WrittenWeekday # NoWeekday
    /\ Lookup_parse(Lookup("weekdays", Weekdays_get(locale)), WrittenWeekday).ok
    /\ Lookup_parse(Lookup("weekdays", Weekdays_get(locale)), WrittenWeekday).value.number
         # WeekdayOf(value)

\* the pattern that was built has a group for the weekday
HasWeekdayGroup ==
    /\ parsers # <<>>
    /\ \E i \in 1..Len(parsers[1]) : parsers[1][i].kind = "weekday"

\* C24: the date RegexParser.parse and parseAll return is the date of the
\* year, month and day that were written, whatever weekday name stands where
\* the pattern has its weekday group; a word that is no weekday name of the
\* locale is not matched
C24_WeekdayNotChecked ==
    (pc \in {"parsed", "scanned"} /\ HasWeekdayGroup) =>
        IF WrittenWeekday # NoWeekday
        THEN /\ parsed = Return(value)
             /\ pc = "scanned" => found = Return(<< value >>)
        ELSE /\ ~parsed.ok
             /\ pc = "scanned" => found = Return(<<>>)

\* a date was written with a weekday that is not its own, and parsed and
\* scanned
C24_WrongWeekdayParsed ==
    /\ pc = "scanned"
    /\ HasWeekdayGroup
    /\ Mismatched
    /\ parsed = Return(value)
    /\ found = Return(<< value >>)

-----------------------------------------------------------------------------
(* SpecAround: a date is written out in the middle of other text and the   *)
(* text is parsed                                                          *)

\* a Friday of two digits and a Sunday of two
AroundDates == { date(2019, 1, 25), date(2019, 5, 12) }

\* with names and a weekday, with short names, with numbers only
AroundOptionSets ==
    { Opts("numeric", "long", "numeric", "long"),
      Opts("numeric", "short", "numeric", "none"),
      Opts("numeric", "numeric", "numeric", "none") }

\* what stands before the date: nothing, words, a digit, a date's beginning
Prefixes == { <<>>, <<"o", "n", " ">>, <<"7">>, <<"1", "/">> }

\* what stands after the date: nothing, a further digit, words, punctuation
Suffixes == { <<>>, <<"1">>, <<" ", "a", "t", " ", "5">>, <<".">> }

InitAround ==
    /\ pc = "start"
    /\ locale \in Locales
    /\ options \in AroundOptionSets
    /\ native \in BOOLEAN
    /\ host \in Hosts
    /\ (~native => host.formatToParts)
    /\ value \in AroundDates
    /\ NoDates
    /\ NoParts
    /\ NoScan
    /\ created = None
    /\ NoRest

\* someone writes text around the date as the locale writes it
Embed ==
    /\ pc = "start"
    /\ \E before \in Prefixes, after \in Suffixes :
          /\ raw' = << Part("literal", before) >>
                    \o HostFormatToParts(locale, options, value)
                    \o << Part("literal", after) >>
          /\ text' = Join(PartValues(raw'))
    /\ pc' = "formatted"
    /\ UNCHANGED << inputs, parsed, previous, parsers, consulted, parts, schema,
                    scanVars, created, restVars >>

NextAround == Embed \/ Parse

SpecAround == InitAround /\ [][NextAround]_vars

\* the whole of s[from..to] is matched by the pattern
MatchesExactly(pat, s, from, to) == MatchWhole(pat, SubSeq(s, from, to)).ok

\* the places of s at which a substring the pattern matches begins
MatchStarts(pat, s) ==
    { from \in 1..Len(s) : \E to \in from..Len(s) : MatchesExactly(pat, s, from, to) }

\* C25: the pattern is not anchored: the parse of a text that contains a
\* substring the pattern matches does not fail to match, the match it uses is
\* the one that begins leftmost, and its result is the result for the matched
\* substring alone, whatever stands before and after it
C25_LeftmostMatchOnly ==
    (pc = "parsed" /\ parsers # <<>>) =>
        \E lower \in { toLocaleLowerCase(text) } :
        \E m \in { Exec(parsers[1], lower, 1) } :
        \E starts \in { MatchStarts(parsers[1], lower) } :
           /\ starts # {} => (m.ok /\ parsed.error # "did not match")
           /\ m.ok =>
                 /\ m.start \in starts
                 /\ \A from \in starts : m.start <= from
                 /\ parsed = RegexParser_parse(locale, parsers[1],
                                               SubSeq(text, m.start, m.end - 1))

\* a date that ends in its year was written after words and directly before a
\* further digit, and the parse returned the date
C25_DigitAfterTheYear ==
    /\ pc = "parsed"
    /\ raw[1].value = <<"o", "n", " ">>
    /\ raw[Len(raw) - 1].type = "year"
    /\ raw[Len(raw)].value = <<"1">>
    /\ parsed = Return(value)

-----------------------------------------------------------------------------
(* SpecAmount: moneyFrom is handed a list of parts                         *)

MaxMoneyParts == 4

\* the parts a list is made of: a code, a symbol, integers, a group separator,
\* a decimal separator that is a comma, a fraction, a literal
MoneyPartAlphabet ==
    { Part("currency", GBP), Part("currency", <<"$">>),
      Part("integer", <<"1", "2">>), Part("integer", <<"3">>),
      Part("group", <<",">>), Part("decimal", <<",">>),
      Part("fraction", <<"5">>), Part("literal", <<" ">>) }

MoneyPartLists == StringsOver(MoneyPartAlphabet, MaxMoneyParts)

InitAmount ==
    /\ pc = "start"
    /\ locale \in MoneyLocales
    /\ options = UndefinedOptions
    /\ native = TRUE
    /\ host = [formatToParts |-> TRUE, deletes |-> {}]
    /\ value = exampleMoney
    /\ NoDates
    /\ raw \in MoneyPartLists
    /\ parts = <<>>
    /\ schema = None
    /\ NoScan
    /\ created = None
    /\ NoRest

\* moneyFrom(raw, locale)
MoneyFrom ==
    /\ pc = "start"
    /\ \E made \in { moneyFrom(raw, symbols, locale, host) } :
          /\ parsed' = made.outcome
          /\ symbols' = made.cache
    /\ pc' = "made"
    /\ UNCHANGED << inputs, text, previous, parsers, consulted, partVars, scanVars,
                    created, memoVars, callers, looked, laterVars >>

NextAmount == MoneyFrom

SpecAmount == InitAmount /\ [][NextAmount]_vars

OfType(ps, types) == SelectSeq(ps, LAMBDA p : p.type \in types)

\* the list without its group and literal parts and without every currency
\* part but the first
Essential(ps) ==
    The({ SelectSeq([i \in 1..Len(ps) |-> [at |-> i, part |-> ps[i]]],
                    LAMBDA e : /\ e.part.type \notin {"group", "literal"}
                               /\ e.part.type = "currency" => e.at = first)
          : first \in { IF OfType(ps, {"currency"}) = <<>> THEN 0
                        ELSE CHOOSE i \in 1..Len(ps) :
                                /\ ps[i].type = "currency"
                                /\ \A j \in 1..(i - 1) : ps[j].type # "currency" } })

EssentialParts(ps) == [i \in 1..Len(Essential(ps)) |-> Essential(ps)[i].part]

\* the digits of the integers and the fraction in order, '.' for each decimal
AmountText(ps) ==
    Join([i \in 1..Len(ps) |->
            IF ps[i].type = "decimal" THEN <<".">>
            ELSE IF ps[i].type \in {"integer", "fraction"} THEN ps[i].value
            ELSE <<>>])

\* C26: without a currency part moneyFrom fails with 'No currency found';
\* otherwise its currency is what the locale's lookup makes of the first
\* currency part, its amount is the number written by the integer, decimal
\* and fraction parts in order with '.' for the decimal, and the outcome is
\* the outcome for the list without its group and literal parts and its
\* further currency parts
C26_AmountFromNumberParts ==
    pc = "made" =>
        IF OfType(raw, {"currency"}) = <<>>
        THEN parsed = Throw("No currency found")
        ELSE \E lookup \in { CurrencySymbols_get(<<>>, locale, <<>>, host).outcome } :
             \E iso \in { CurrencySymbols_parse(lookup.value,
                                                OfType(raw, {"currency"})[1].value) } :
                /\ lookup.ok
                /\ parsed = IF iso.ok THEN Return(money(iso.value, Number(AmountText(raw))))
                            ELSE iso
                /\ parsed = moneyFrom(EssentialParts(raw), <<>>, locale, host).outcome

\* a code, an integer, a group separator and an integer made twelve tens and
\* three of the code's currency
C26_GroupedIntegers ==
    /\ pc = "made"
    /\ raw = << Part("currency", GBP), Part("integer", <<"1", "2">>),
                Part("group", <<",">>), Part("integer", <<"3">>) >>
    /\ parsed = Return(money(GBP, Amount(FALSE, 123, 0)))

-----------------------------------------------------------------------------
(* The pattern of a key and the day it is derived on                       *)

\* what RegexBuilder.create leaves in its cache when the entry is derived at
\* the time now
DerivedAt(now) ==
    The({ IF p.ok THEN << p.value >> ELSE <<>>
          : p \in { BuildParser(locale, options, native, host, now) } })

\* C27: the pattern RegexBuilder.create built for the locale and the options
\* is the pattern it would have built at any other time
C27_SamePatternWheneverDerived ==
    pc = "parsed" => \A now \in NowDates : parsers = DerivedAt(now)

=============================================================================
